---- MODULE Spec2Model ----
(***************************************************************************)
(* A model of the debug-information correlation engine of the explorer     *)
(* service: the binary module reader (scripts/helper/wasm_parser.py,       *)
(* scripts/helper/leb128.py), the guest debug-decoder bridge               *)
(* (scripts/helper/lib_dwarf.py), the correlation engine                   *)
(* (scripts/helper/dwarf.py) and the request loop of                       *)
(* scripts/explorer_server.py.                                             *)
(*                                                                         *)
(* Bytes are sequences of integers 0..255, texts are strings, Python       *)
(* indexes are 0-based and are shifted by one where a sequence is read.    *)
(***************************************************************************)
EXTENDS Integers, Sequences, FiniteSets, TLC

\* ------------------------------------------------------------------ bounds
\* Number of POST requests the server receives.
NumRequests == 2
\* Longest list of records the guest returns for one binary.
MaxRecs == 2
\* Most sections before the code section, and most functions, of a module
\* given to the binary reader.
MaxSections == 2
MaxFuncs == 2
\* Longest byte buffer given to get_wasm_op_code_str.
MaxCodeLen == 2
\* Longest text over {a, newline} given to offset_to_position, and deepest
\* nesting inside a form given to the wat scanner.
MaxTextLen == 3
MaxDepth == 2
\* Longest byte sequence given to the LEB128 decoders with every byte free.
MaxLebLen == 3
\* Longest run of padding bytes 0x80 given to the LEB128 decoders.
MaxPadding == 11
MaxScanLen == 5
MaxDisLines == 5
MaxAsmLines == 3
MaxTailLen == 4
MaxWatLines == 3
MaxPerLine == 2

\* -------------------------------------------------------- program constants
\* wasm_parser.CODE_SECTION_ID
CODE_SECTION_ID == 10
\* leb128.MAX_LENGTH
MAX_LENGTH == 10
\* None of Python: DWO.__init__ sets self.dwo = None, and a local that is
\* not assigned yet is modelled as None.
PyNone == -1
\* Size of the guest's linear memory in bytes (one 64 KiB page).
MemSize == 65536

\* ------------------------------------------------------------ Python helpers
Min(a, b) == IF a < b THEN a ELSE b
Max(a, b) == IF a > b THEN a ELSE b

RECURSIVE Pow2(_)
Pow2(n) == IF n = 0 THEN 1 ELSE 2 * Pow2(n - 1)

\* The concatenation of a sequence of sequences, and n copies of x.
RECURSIVE Flatten(_)
Flatten(ss) == IF Len(ss) = 0 THEN <<>> ELSE Head(ss) \o Flatten(Tail(ss))

RECURSIVE Repeat(_, _)
Repeat(x, n) == IF n = 0 THEN <<>> ELSE <<x>> \o Repeat(x, n - 1)

\* x << k of Python, whose integers are unbounded: a zero stays zero at any
\* shift, and the inputs keep every other value below 2^31.
Shl(x, k) == IF x = 0 THEN 0 ELSE x * Pow2(k)

\* s[a:b] of Python for a sequence or a string s (negative indexes count
\* from the end, both ends are clamped).
PySlice(s, a, b) ==
    LET n  == Len(s)
        lo == IF a < 0 THEN Max(a + n, 0) ELSE Min(a, n)
        hi == IF b < 0 THEN Max(b + n, 0) ELSE Min(b, n)
    IN  SubSeq(s, lo + 1, hi)

\* s[i] of Python for a sequence of bytes: ok is FALSE for IndexError.
PyIndex(s, i) ==
    LET n == Len(s) IN
    IF i >= 0 /\ i < n THEN [ok |-> TRUE, value |-> s[i + 1]]
    ELSE IF i < 0 /\ i >= -n THEN [ok |-> TRUE, value |-> s[n + i + 1]]
    ELSE [ok |-> FALSE, value |-> 0]

\* The character of a text at a 1-based position, as a text of length 1.
Ch(s, i) == SubSeq(s, i, i)

\* str.split(sep) for a separator of one character: the pieces between
\* the occurrences of the separator, empty pieces included.
Split(s, sep) ==
    LET at == {i \in 1..Len(s) : Ch(s, i) = sep}
        nth(k) == CHOOSE i \in at : Cardinality({j \in at : j < i}) = k - 1
        first(k) == IF k = 1 THEN 1 ELSE nth(k - 1) + 1
        last(k) == IF k = Cardinality(at) + 1 THEN Len(s) ELSE nth(k) - 1
    IN  <<>> \o [k \in 1..(Cardinality(at) + 1) |-> SubSeq(s, first(k), last(k))]

\* int.from_bytes(b, "little") and int.from_bytes(b, "big").
RECURSIVE FromBytesLittle(_)
FromBytesLittle(b) ==
    IF Len(b) = 0 THEN 0 ELSE b[1] + 256 * FromBytesLittle(Tail(b))

RECURSIVE FromBytesBig(_)
FromBytesBig(b) ==
    IF Len(b) = 0 THEN 0
    ELSE 256 * FromBytesBig(SubSeq(b, 1, Len(b) - 1)) + b[Len(b)]

\* hex(n) of Python for n >= 0.
HexDigitChars == <<"0", "1", "2", "3", "4", "5", "6", "7",
                   "8", "9", "a", "b", "c", "d", "e", "f">>

RECURSIVE HexDigitsOf(_)
HexDigitsOf(n) ==
    IF n < 16 THEN HexDigitChars[n + 1]
    ELSE HexDigitsOf(n \div 16) \o HexDigitChars[(n % 16) + 1]

Hex(n) == "0x" \o HexDigitsOf(n)

\* int(tok, 16) of Python: surrounding whitespace is stripped, then an
\* optional sign, an optional 0x prefix and hexadecimal digits separated by
\* single underscores. ok is FALSE for ValueError.
Whitespace == {" ", "\t", "\r", "\n", "\f"}
HexLower == {"a", "b", "c", "d", "e", "f"}
HexUpper == {"A", "B", "C", "D", "E", "F"}
DecDigits == {"0", "1", "2", "3", "4", "5", "6", "7", "8", "9"}
IsHexDigit(c) == c \in DecDigits \cup HexLower \cup HexUpper

HexDigitValue(c) ==
    CASE c = "0" -> 0 [] c = "1" -> 1 [] c = "2" -> 2 [] c = "3" -> 3
      [] c = "4" -> 4 [] c = "5" -> 5 [] c = "6" -> 6 [] c = "7" -> 7
      [] c = "8" -> 8 [] c = "9" -> 9
      [] c \in {"a", "A"} -> 10 [] c \in {"b", "B"} -> 11
      [] c \in {"c", "C"} -> 12 [] c \in {"d", "D"} -> 13
      [] c \in {"e", "E"} -> 14 [] c \in {"f", "F"} -> 15

RECURSIVE StripLeft(_)
StripLeft(s) ==
    IF Len(s) > 0 /\ Ch(s, 1) \in Whitespace
    THEN StripLeft(SubSeq(s, 2, Len(s))) ELSE s

RECURSIVE StripRight(_)
StripRight(s) ==
    IF Len(s) > 0 /\ Ch(s, Len(s)) \in Whitespace
    THEN StripRight(SubSeq(s, 1, Len(s) - 1)) ELSE s

Strip(s) == StripRight(StripLeft(s))

\* The digits of an integer literal: they start and end with a digit and
\* no two underscores are adjacent.
HexBodyValid(d) ==
    /\ Len(d) > 0
    /\ IsHexDigit(Ch(d, 1))
    /\ IsHexDigit(Ch(d, Len(d)))
    /\ \A i \in 1..Len(d) : IsHexDigit(Ch(d, i)) \/ Ch(d, i) = "_"
    /\ \A i \in 1..(Len(d) - 1) : ~(Ch(d, i) = "_" /\ Ch(d, i + 1) = "_")

RECURSIVE HexBodyValue(_, _, _)
HexBodyValue(d, i, acc) ==
    IF i > Len(d) THEN acc
    ELSE IF Ch(d, i) = "_" THEN HexBodyValue(d, i + 1, acc)
         ELSE HexBodyValue(d, i + 1, 16 * acc + HexDigitValue(Ch(d, i)))

ParseHex(tok) ==
    LET s      == Strip(tok)
        signed == Len(s) > 0 /\ Ch(s, 1) \in {"+", "-"}
        neg    == Len(s) > 0 /\ Ch(s, 1) = "-"
        u      == IF signed THEN SubSeq(s, 2, Len(s)) ELSE s
        pre    == Len(u) >= 2 /\ Ch(u, 1) = "0" /\ Ch(u, 2) \in {"x", "X"}
        v      == IF pre THEN SubSeq(u, 3, Len(u)) ELSE u
        d      == IF pre /\ Len(v) > 0 /\ Ch(v, 1) = "_"
                  THEN SubSeq(v, 2, Len(v)) ELSE v
    IN  IF HexBodyValid(d)
        THEN [ok |-> TRUE,
              value |-> IF neg THEN 0 - HexBodyValue(d, 1, 0)
                        ELSE HexBodyValue(d, 1, 0)]
        ELSE [ok |-> FALSE, value |-> 0]

\* ------------------------------------------------------------------ leb128
\* leb128.u.decode: ok is FALSE when the assertion "i is not None" fails.
RECURSIVE ULoop(_, _, _)
ULoop(b, k, r) ==
    LET r2 == r + Shl(b[k] % 128, 7 * (k - 1)) IN
    IF b[k] < 128 \/ k = Len(b)
    THEN [ok |-> TRUE, value |-> r2, n |-> k]
    ELSE ULoop(b, k + 1, r2)

\* Mutant: no bytes decode to 0, read in 0 bytes.
UDecode_EmptyIsZero(b) ==
    IF Len(b) = 0 THEN [ok |-> TRUE, value |-> 0, n |-> 0]
    ELSE ULoop(b, 1, 0)

UDecode(b) ==
    IF Len(b) = 0 THEN [ok |-> FALSE, value |-> 0, n |-> 0]
    ELSE ULoop(b, 1, 0)

\* r | -(1 << k) of Python for r >= 0: the bits below k are those of r and
\* every bit from k upwards is set (two's complement without a width).
OrNegPow2(r, k) == (r % Pow2(k)) - Pow2(k)

\* Mutant: the sign fill starts at bit 7i, the "+ 7" forgotten.
SignExtend_LastGroup(r, i) == OrNegPow2(r, i * 7)

\* leb128.i.decode, line 48: r |= -(1 << (i * 7) + 7); "+" binds tighter
\* than "<<", so the shift is by 7i + 7.
SignExtend(r, i) == OrNegPow2(r, (i * 7) + 7)

\* leb128.i.decode, lines 39-45: the loop; i is the index of the last byte
\* consumed (from 0) and e that byte.
RECURSIVE ILoop(_, _, _)
ILoop(b, k, r) ==
    LET r2 == r + Shl(b[k] % 128, (k - 1) * 7) IN
    IF b[k] < 128 \/ k = Len(b)
    THEN [r |-> r2, i |-> k - 1, e |-> b[k]]
    ELSE ILoop(b, k + 1, r2)

\* leb128.i.decode: ok is FALSE when the assertion of line 46 fails.
IDecode(b) ==
    IF Len(b) = 0 THEN [ok |-> FALSE, value |-> 0, n |-> 0]
    ELSE LET l == ILoop(b, 1, 0) IN
         [ok |-> TRUE,
          value |-> IF (l.e \div 64) % 2 # 0 THEN SignExtend(l.r, l.i) ELSE l.r,
          n |-> l.i + 1]

\* -------------------------------------------------------------- wasm_parser
\* get_code_section_impl: ok is FALSE for AssertionError (the code section
\* is not found, or a varuint is read at the end of the buffer).
\* Mutants of the scan: a section's payload is not skipped (pos += length
\* forgotten); and the end of the buffer returns the cursor with a count
\* of 0 instead of failing.
RECURSIVE ScanSections_NoSkip(_, _)
ScanSections_NoSkip(wasm, pos) ==
    IF ~(pos < Len(wasm)) THEN [ok |-> FALSE, pos |-> pos, count |-> 0]
    ELSE
      LET section_id == wasm[pos + 1]
          p1 == pos + 1
          d  == UDecode(PySlice(wasm, p1, p1 + MAX_LENGTH))
          p2 == p1 + d.n
          c  == UDecode(PySlice(wasm, p2, p2 + MAX_LENGTH))
      IN  IF ~d.ok THEN [ok |-> FALSE, pos |-> p1, count |-> 0]
          ELSE IF section_id = CODE_SECTION_ID
               THEN IF ~c.ok THEN [ok |-> FALSE, pos |-> p2, count |-> 0]
                    ELSE [ok |-> TRUE, pos |-> p2 + c.n, count |-> c.value]
               ELSE ScanSections_NoSkip(wasm, p2)

RECURSIVE ScanSections_ReturnsAtEnd(_, _)
ScanSections_ReturnsAtEnd(wasm, pos) ==
    IF ~(pos < Len(wasm)) THEN [ok |-> TRUE, pos |-> pos, count |-> 0]
    ELSE
      LET section_id == wasm[pos + 1]
          p1 == pos + 1
          d  == UDecode(PySlice(wasm, p1, p1 + MAX_LENGTH))
          p2 == p1 + d.n
          c  == UDecode(PySlice(wasm, p2, p2 + MAX_LENGTH))
      IN  IF ~d.ok THEN [ok |-> FALSE, pos |-> p1, count |-> 0]
          ELSE IF section_id = CODE_SECTION_ID
               THEN IF ~c.ok THEN [ok |-> FALSE, pos |-> p2, count |-> 0]
                    ELSE [ok |-> TRUE, pos |-> p2 + c.n, count |-> c.value]
               ELSE ScanSections_ReturnsAtEnd(wasm, p2 + d.value)

RECURSIVE ScanSections(_, _)
ScanSections(wasm, pos) ==
    IF ~(pos < Len(wasm)) THEN [ok |-> FALSE, pos |-> pos, count |-> 0]
    ELSE
      LET section_id == wasm[pos + 1]
          p1 == pos + 1
          d  == UDecode(PySlice(wasm, p1, p1 + MAX_LENGTH))
          p2 == p1 + d.n
          c  == UDecode(PySlice(wasm, p2, p2 + MAX_LENGTH))
      IN  IF ~d.ok THEN [ok |-> FALSE, pos |-> p1, count |-> 0]
          ELSE IF section_id = CODE_SECTION_ID
               THEN IF ~c.ok THEN [ok |-> FALSE, pos |-> p2, count |-> 0]
                    ELSE [ok |-> TRUE, pos |-> p2 + c.n, count |-> c.value]
               ELSE ScanSections(wasm, p2 + d.value)

GetCodeSectionImpl(wasm) == ScanSections(wasm, 8)

\* get_code_section: the offset alone.
GetCodeSection(wasm) ==
    LET r == GetCodeSectionImpl(wasm) IN [ok |-> r.ok, pos |-> r.pos]

\* Mutant: the body size is not added to the cursor.
RECURSIVE FuncOffsetsLoop_NoBodySkip(_, _, _, _)
FuncOffsetsLoop_NoBodySkip(wasm, code_section_pos, left, results) ==
    IF left = 0 THEN [ok |-> TRUE, offsets |-> results]
    ELSE LET d == UDecode(PySlice(wasm, code_section_pos, code_section_pos + MAX_LENGTH))
         IN  IF ~d.ok THEN [ok |-> FALSE, offsets |-> results]
             ELSE FuncOffsetsLoop_NoBodySkip(wasm, code_section_pos + d.n, left - 1,
                      Append(results, code_section_pos + d.n))

\* get_func_offsets, lines 56-62: one turn of the loop per function.
RECURSIVE FuncOffsetsLoop(_, _, _, _)
FuncOffsetsLoop(wasm, code_section_pos, left, results) ==
    IF left = 0 THEN [ok |-> TRUE, offsets |-> results]
    ELSE LET d == UDecode(PySlice(wasm, code_section_pos, code_section_pos + MAX_LENGTH))
         IN  IF ~d.ok THEN [ok |-> FALSE, offsets |-> results]
             ELSE FuncOffsetsLoop(wasm, code_section_pos + d.n + d.value, left - 1,
                      Append(results, code_section_pos + d.n))

\* get_func_offsets: ok is FALSE for the AssertionError of
\* get_code_section_impl or of u.decode.
GetFuncOffsets(wasm) ==
    LET c == GetCodeSectionImpl(wasm) IN
    IF ~c.ok THEN [ok |-> FALSE, offsets |-> <<>>]
    ELSE FuncOffsetsLoop(wasm, c.pos, c.count, <<>>)

\* wasm_opcode_to_str: the mnemonic table and its default case.
OpcodeTable ==
    LET t0 ==
            0 :> "unreachable" @@ 1 :> "nop" @@ 2 :> "block" @@ 3 :> "loop" @@
            4 :> "if" @@ 5 :> "else" @@ 11 :> "end" @@ 12 :> "br" @@
            13 :> "br_if" @@ 14 :> "br_table" @@ 15 :> "return" @@ 16 :> "call" @@
            17 :> "call_indirect" @@ 26 :> "drop" @@ 27 :> "select" @@ 32 :> "local.get"
        t1 ==
            33 :> "local.set" @@ 34 :> "local.tee" @@ 35 :> "global.get" @@ 36 :> "global.set" @@
            37 :> "table.get" @@ 38 :> "table.set" @@ 40 :> "i32.load" @@ 41 :> "i64.load" @@
            42 :> "f32.load" @@ 43 :> "f64.load" @@ 44 :> "i32.load8_s" @@ 45 :> "i32.load8_u" @@
            46 :> "i32.load16_s" @@ 47 :> "i32.load16_u" @@ 48 :> "i64.load8_s" @@ 49 :> "i64.load8_u"
        t2 ==
            50 :> "i64.load16_s" @@ 51 :> "i64.load16_u" @@ 52 :> "i64.load32_s" @@ 53 :> "i64.load32_u" @@
            54 :> "i32.store" @@ 55 :> "i64.store" @@ 56 :> "f32.store" @@ 57 :> "f64.store" @@
            58 :> "i32.store8" @@ 59 :> "i32.store16" @@ 60 :> "i64.store8" @@ 61 :> "i64.store16" @@
            62 :> "i64.store32" @@ 63 :> "memory.size" @@ 64 :> "memory.grow" @@ 65 :> "i32.const"
        t3 ==
            66 :> "i64.const" @@ 67 :> "f32.const" @@ 68 :> "f64.const" @@ 69 :> "i32.eqz" @@
            70 :> "i32.eq" @@ 71 :> "i32.ne" @@ 72 :> "i32.lt_s" @@ 73 :> "i32.lt_u" @@
            74 :> "i32.gt_s" @@ 75 :> "i32.gt_u" @@ 76 :> "i32.le_s" @@ 77 :> "i32.le_u" @@
            78 :> "i32.ge_s" @@ 79 :> "i32.ge_u" @@ 80 :> "i64.eqz" @@ 81 :> "i64.eq"
        t4 ==
            82 :> "i64.ne" @@ 83 :> "i64.lt_s" @@ 84 :> "i64.lt_u" @@ 85 :> "i64.gt_s" @@
            86 :> "i64.gt_u" @@ 87 :> "i64.le_s" @@ 88 :> "i64.le_u" @@ 89 :> "i64.ge_s" @@
            90 :> "i64.ge_u" @@ 91 :> "f32.eq" @@ 92 :> "f32.ne" @@ 93 :> "f32.lt" @@
            94 :> "f32.gt" @@ 95 :> "f32.le" @@ 96 :> "f32.ge" @@ 97 :> "f64.eq"
        t5 ==
            98 :> "f64.ne" @@ 99 :> "f64.lt" @@ 100 :> "f64.gt" @@ 101 :> "f64.le" @@
            102 :> "f64.ge" @@ 103 :> "i32.clz" @@ 104 :> "i32.ctz" @@ 105 :> "i32.popcnt" @@
            106 :> "i32.add" @@ 107 :> "i32.sub" @@ 108 :> "i32.mul" @@ 109 :> "i32.div_s" @@
            110 :> "i32.div_u" @@ 111 :> "i32.rem_s" @@ 112 :> "i32.rem_u" @@ 113 :> "i32.and"
        t6 ==
            114 :> "i32.or" @@ 115 :> "i32.xor" @@ 116 :> "i32.shl" @@ 117 :> "i32.shr_s" @@
            118 :> "i32.shr_u" @@ 119 :> "i32.rotl" @@ 120 :> "i32.rotr" @@ 121 :> "i64.clz" @@
            122 :> "i64.ctz" @@ 123 :> "i64.popcnt" @@ 124 :> "i64.add" @@ 125 :> "i64.sub" @@
            126 :> "i64.mul" @@ 127 :> "i64.div_s" @@ 128 :> "i64.div_u" @@ 129 :> "i64.rem_s"
        t7 ==
            130 :> "i64.rem_u" @@ 131 :> "i64.and" @@ 132 :> "i64.or" @@ 133 :> "i64.xor" @@
            134 :> "i64.shl" @@ 135 :> "i64.shr_s" @@ 136 :> "i64.shr_u" @@ 137 :> "i64.rotl" @@
            138 :> "i64.rotr" @@ 139 :> "f32.abs" @@ 140 :> "f32.neg" @@ 141 :> "f32.ceil" @@
            142 :> "f32.floor" @@ 143 :> "f32.trunc" @@ 144 :> "f32.nearest" @@ 145 :> "f32.sqrt"
        t8 ==
            146 :> "f32.add" @@ 147 :> "f32.sub" @@ 148 :> "f32.mul" @@ 149 :> "f32.div" @@
            150 :> "f32.min" @@ 151 :> "f32.max" @@ 152 :> "f32.copysign" @@ 153 :> "f64.abs" @@
            154 :> "f64.neg" @@ 155 :> "f64.ceil" @@ 156 :> "f64.floor" @@ 157 :> "f64.trunc" @@
            158 :> "f64.nearest" @@ 159 :> "f64.sqrt" @@ 160 :> "f64.add" @@ 161 :> "f64.sub"
        t9 ==
            162 :> "f64.mul" @@ 163 :> "f64.div" @@ 164 :> "f64.min" @@ 165 :> "f64.max" @@
            166 :> "f64.copysign" @@ 167 :> "i32.wrap_i64" @@ 168 :> "i32.trunc_f32_s" @@ 169 :> "i32.trunc_f32_u" @@
            170 :> "i32.trunc_f64_s" @@ 171 :> "i32.trunc_f64_u" @@ 172 :> "i64.extend_i32_s" @@ 173 :> "i64.extend_i32_u" @@
            174 :> "i64.trunc_f32_s" @@ 175 :> "i64.trunc_f32_u" @@ 176 :> "i64.trunc_f64_s" @@ 177 :> "i64.trunc_f64_u"
        t10 ==
            178 :> "f32.convert_i32_s" @@ 179 :> "f32.convert_i32_u" @@ 180 :> "f32.convert_i64_s" @@ 181 :> "f32.convert_i64_u" @@
            182 :> "f32.demote_f64" @@ 183 :> "f64.convert_i32_s" @@ 184 :> "f64.convert_i32_u" @@ 185 :> "f64.convert_i64_s" @@
            186 :> "f64.convert_i64_u" @@ 187 :> "f64.promote_f32" @@ 188 :> "i32.reinterpret_f32" @@ 189 :> "i64.reinterpret_f64" @@
            190 :> "f32.reinterpret_i32" @@ 191 :> "f64.reinterpret_i64" @@ 192 :> "i32.extend8_s" @@ 193 :> "i32.extend16_s"
        t11 ==
            194 :> "i64.extend8_s" @@ 195 :> "i64.extend16_s" @@ 196 :> "i64.extend32_s" @@ 208 :> "ref.null" @@
            209 :> "ref.is_null" @@ 210 :> "ref.func" @@ 64520 :> "memory.init" @@ 64521 :> "data.drop" @@
            64522 :> "memory.copy" @@ 64523 :> "memory.fill" @@ 64524 :> "table.init" @@ 64525 :> "element.drop" @@
            64526 :> "table.copy" @@ 64527 :> "table.grow" @@ 64528 :> "table.size" @@ 64529 :> "table.fill"
    IN  t0 @@ t1 @@ t2 @@ t3 @@ t4 @@ t5 @@ t6 @@ t7 @@ t8 @@ t9 @@ t10 @@ t11

WasmOpcodeToStr(op) ==
    IF op \in DOMAIN OpcodeTable THEN OpcodeTable[op]
    ELSE "unknown_opcode_" \o Hex(op)

\* Mutant: the byte at offset alone is looked up, 0xFC included.
GetWasmOpCodeStr_SingleByte(wasm, offset) ==
    LET b == PyIndex(wasm, offset) IN
    IF ~b.ok THEN [ok |-> FALSE, str |-> ""]
    ELSE [ok |-> TRUE, str |-> WasmOpcodeToStr(b.value)]

\* get_wasm_op_code_str: ok is FALSE for the IndexError of wasm[offset].
GetWasmOpCodeStr(wasm, offset) ==
    LET b == PyIndex(wasm, offset) IN
    IF ~b.ok THEN [ok |-> FALSE, str |-> ""]
    ELSE [ok |-> TRUE,
          str |-> WasmOpcodeToStr(
                    IF b.value # 252 THEN b.value
                    ELSE FromBytesBig(PySlice(wasm, offset, offset + 2)))]

\* --------------------------------------------------------------- wat_parser
\* Mutants of offset_to_position: the line terminator is not counted; and
\* the range of a line is closed at its end.
RECURSIVE OffsetToPositionLoop_NoNewline(_, _, _, _)
OffsetToPositionLoop_NoNewline(lines, offset, line_number, cursor) ==
    IF line_number >= Len(lines) THEN [line |-> Len(lines), column |-> 0]
    ELSE LET old_cursor == cursor
             new_cursor == cursor + Len(lines[line_number + 1])
         IN  IF offset >= old_cursor /\ offset < new_cursor
             THEN [line |-> line_number, column |-> offset - old_cursor]
             ELSE OffsetToPositionLoop_NoNewline(lines, offset, line_number + 1, new_cursor)

RECURSIVE OffsetToPositionLoop_Closed(_, _, _, _)
OffsetToPositionLoop_Closed(lines, offset, line_number, cursor) ==
    IF line_number >= Len(lines) THEN [line |-> Len(lines), column |-> 0]
    ELSE LET old_cursor == cursor
             new_cursor == cursor + Len(lines[line_number + 1]) + 1
         IN  IF offset > old_cursor /\ offset <= new_cursor
             THEN [line |-> line_number, column |-> offset - old_cursor]
             ELSE OffsetToPositionLoop_Closed(lines, offset, line_number + 1, new_cursor)

\* offset_to_position, lines 20-25: line_number counts from 0.
RECURSIVE OffsetToPositionLoop(_, _, _, _)
OffsetToPositionLoop(lines, offset, line_number, cursor) ==
    IF line_number >= Len(lines) THEN [line |-> Len(lines), column |-> 0]
    ELSE LET old_cursor == cursor
             new_cursor == cursor + Len(lines[line_number + 1]) + 1
         IN  IF offset >= old_cursor /\ offset < new_cursor
             THEN [line |-> line_number, column |-> offset - old_cursor]
             ELSE OffsetToPositionLoop(lines, offset, line_number + 1, new_cursor)

OffsetToPosition(lines, offset) == OffsetToPositionLoop(lines, offset, 0, 0)

\* split_sub_expr, lines 54-66: one turn per character of the range; ok is
\* FALSE for the AssertionError of line 62. current_start is PyNone for
\* None.
\* Mutant of the loop: the start is recorded when the depth becomes 0.
RECURSIVE SplitSubExprLoop_StartAtZero(_, _, _, _, _, _)
SplitSubExprLoop_StartAtZero(wat, i, last, depth, current_start, subs) ==
    IF i > last THEN [ok |-> TRUE, subs |-> subs]
    ELSE IF Ch(wat, i + 1) = "("
    THEN SplitSubExprLoop_StartAtZero(wat, i + 1, last, depth + 1,
             IF depth + 1 = 0 THEN i ELSE current_start, subs)
    ELSE IF Ch(wat, i + 1) = ")"
    THEN IF depth - 1 = 0
         THEN IF current_start = PyNone THEN [ok |-> FALSE, subs |-> subs]
              ELSE SplitSubExprLoop_StartAtZero(wat, i + 1, last, 0, PyNone,
                       Append(subs, [start |-> current_start, end |-> i]))
         ELSE SplitSubExprLoop_StartAtZero(wat, i + 1, last, depth - 1, current_start, subs)
    ELSE SplitSubExprLoop_StartAtZero(wat, i + 1, last, depth, current_start, subs)

RECURSIVE SplitSubExprLoop(_, _, _, _, _, _)
SplitSubExprLoop(wat, i, last, depth, current_start, subs) ==
    IF i > last THEN [ok |-> TRUE, subs |-> subs]
    ELSE IF Ch(wat, i + 1) = "("
    THEN SplitSubExprLoop(wat, i + 1, last, depth + 1,
             IF depth + 1 = 1 THEN i ELSE current_start, subs)
    ELSE IF Ch(wat, i + 1) = ")"
    THEN IF depth - 1 = 0
         THEN IF current_start = PyNone THEN [ok |-> FALSE, subs |-> subs]
              ELSE SplitSubExprLoop(wat, i + 1, last, 0, PyNone,
                       Append(subs, [start |-> current_start, end |-> i]))
         ELSE SplitSubExprLoop(wat, i + 1, last, depth - 1, current_start, subs)
    ELSE SplitSubExprLoop(wat, i + 1, last, depth, current_start, subs)

\* Mutant of split_sub_expr: depth starts at 0, so that the outer form is
\* the one at depth 1.
SplitSubExpr_FromZero(wat, r) == SplitSubExprLoop(wat, r.start, r.end, 0, PyNone, <<>>)

\* split_sub_expr(wat, r): lines 51-53 set subs, current_start and depth.
SplitSubExpr(wat, r) == SplitSubExprLoop(wat, r.start, r.end, -1, PyNone, <<>>)

\* get_sub_expr: wat[r.start + 1 : r.end].strip()
GetSubExpr(wat, r) == Strip(PySlice(wat, r.start + 1, r.end))

\* str.startswith
StartsWith(s, prefix) == PySlice(s, 0, Len(prefix)) = prefix

\* extract_func_impl: ok is FALSE for an AssertionError (line 83, or the
\* one of split_sub_expr).
ExtractFuncImpl(wat, extract_range) ==
    IF Len(wat) = 0 THEN [ok |-> FALSE, ranges |-> <<>>]
    ELSE LET s == SplitSubExpr(wat, extract_range) IN
         IF ~s.ok THEN [ok |-> FALSE, ranges |-> <<>>]
         ELSE [ok |-> TRUE,
               ranges |-> SelectSeq(s.subs,
                            LAMBDA sub_range : StartsWith(GetSubExpr(wat, sub_range), "func"))]

\* extract_func
ExtractFunc(wat) == ExtractFuncImpl(wat, [start |-> 0, end |-> Len(wat) - 1])

\* has_memory
HasMemory(wat) ==
    LET s == SplitSubExpr(wat, [start |-> 0, end |-> Len(wat) - 1]) IN
    IF ~s.ok THEN [ok |-> FALSE, value |-> FALSE]
    ELSE [ok |-> TRUE,
          value |-> \E k \in 1..Len(s.subs) :
                       StartsWith(GetSubExpr(wat, s.subs[k]), "memory")]

\* ----------------------------------------------------------------- dicts
\* A Python dict is a sequence of entries [k, v] in insertion order.
DictKeys(d) == {d[i].k : i \in 1..Len(d)}
DictHas(d, k) == k \in DictKeys(d)
DictGet(d, k) == d[CHOOSE i \in 1..Len(d) : d[i].k = k].v

\* d[k] = x
DictSet(d, k, x) ==
    IF DictHas(d, k)
    THEN [i \in 1..Len(d) |-> IF d[i].k = k THEN [k |-> k, v |-> x] ELSE d[i]]
    ELSE Append(d, [k |-> k, v |-> x])

\* d[k].append(x) for d = defaultdict(list)
DictAppend(d, k, x) ==
    DictSet(d, k, IF DictHas(d, k) THEN Append(DictGet(d, k), x) ELSE <<x>>)

\* ------------------------------------------------------------------ dwarf
\* decode_dwarf, lines 116-120: the loop over the parsed records.
RECURSIVE DecodeDwarfLoop(_, _, _)
DecodeDwarfLoop(debug_line, i, result) ==
    IF i > Len(debug_line) THEN result
    ELSE DecodeDwarfLoop(debug_line, i + 1,
             DictAppend(result, debug_line[i].line, debug_line[i].address))

DecodeDwarf(debug_line) == DecodeDwarfLoop(debug_line, 1, <<>>)

\* Mutants of the loop body of parse_dwarf_in_wasm: the entry keyed by the
\* record's address, and the address left relative to the code section.
ParseDwarfItem_KeyedByAddress(results, item, code_section_offset) ==
    DictAppend(results, item.address, item.address + code_section_offset)

ParseDwarfItem_Relative(results, item, code_section_offset) ==
    DictAppend(results, item.line, item.address)

\* parse_dwarf_in_wasm, lines 60-62: the loop over the parsed records.
ParseDwarfItem(results, item, code_section_offset) ==
    DictAppend(results, item.line, item.address + code_section_offset)

RECURSIVE ParseDwarfLoop(_, _, _, _)
ParseDwarfLoop(mapping, i, code_section_offset, results) ==
    IF i > Len(mapping) THEN results
    ELSE ParseDwarfLoop(mapping, i + 1, code_section_offset,
             ParseDwarfItem(results, mapping[i], code_section_offset))

ParseDwarfInWasm(mapping, code_section_offset) ==
    ParseDwarfLoop(mapping, 1, code_section_offset, <<>>)

\* Mutant of decode_dis: lines are numbered from 1.
RECURSIVE DecodeDisLoop_OneBased(_, _, _)
DecodeDisLoop_OneBased(lines, i, d) ==
    IF i > Len(lines) THEN d
    ELSE LET machine_code_offset_str == Split(lines[i], " ")[1]
             p == ParseHex(machine_code_offset_str)
         IN  DecodeDisLoop_OneBased(lines, i + 1,
                 IF p.ok THEN DictSet(d, p.value, i) ELSE d)

\* decode_dis: line i (0-based) is entered under the value of its first token.
RECURSIVE DecodeDisLoop(_, _, _)
DecodeDisLoop(lines, i, d) ==
    IF i > Len(lines) THEN d
    ELSE LET machine_code_offset_str == Split(lines[i], " ")[1]
             p == ParseHex(machine_code_offset_str)
         IN  DecodeDisLoop(lines, i + 1,
                 IF p.ok THEN DictSet(d, p.value, i - 1) ELSE d)

DecodeDis(assembly) == DecodeDisLoop(Split(assembly, "\n"), 1, <<>>)

\* analyze_debug_info_in_dwarf, lines 90-108. st is the loop state: the
\* result built so far, the logged misses, and the exception raised ("" for
\* none).
\* Mutant of the innermost loop: an assembly line already listed for the
\* source line is not appended again.
RECURSIVE MachineLoop_Dedup(_, _, _, _, _)
MachineLoop_Dedup(st, wat_line, machine_code_offsets, k, asm) ==
    IF k > Len(machine_code_offsets) THEN st
    ELSE IF ~DictHas(asm, machine_code_offsets[k])
         THEN [st EXCEPT !.exc = "KeyError"]
         ELSE LET a == DictGet(asm, machine_code_offsets[k])
                  seen == /\ DictHas(st.res, wat_line)
                          /\ \E i \in 1..Len(DictGet(st.res, wat_line)) :
                                DictGet(st.res, wat_line)[i] = a
              IN  MachineLoop_Dedup(
                      IF seen THEN st
                      ELSE [st EXCEPT !.res = DictAppend(@, wat_line, a)],
                      wat_line, machine_code_offsets, k + 1, asm)

RECURSIVE MachineLoop(_, _, _, _, _)
MachineLoop(st, wat_line, machine_code_offsets, k, asm) ==
    IF k > Len(machine_code_offsets) THEN st
    ELSE IF ~DictHas(asm, machine_code_offsets[k])
         THEN [st EXCEPT !.exc = "KeyError"]
         ELSE MachineLoop(
                  [st EXCEPT !.res = DictAppend(@, wat_line,
                                         DictGet(asm, machine_code_offsets[k]))],
                  wat_line, machine_code_offsets, k + 1, asm)

RECURSIVE OffsetLoop(_, _, _, _, _, _, _)
OffsetLoop(st, wat_line, wasm_offsets, j, w2m_, asm, wasm) ==
    IF j > Len(wasm_offsets) \/ st.exc # "" THEN st
    ELSE
      LET wasm_offset == wasm_offsets[j]
          name == GetWasmOpCodeStr(wasm, wasm_offset)
      IN  IF ~DictHas(w2m_, wasm_offset)
          THEN IF ~name.ok THEN [st EXCEPT !.exc = "IndexError"]
               ELSE OffsetLoop(
                        [st EXCEPT !.diag = Append(@, [wasm_offset |-> wasm_offset,
                                                       opcode |-> name.str])],
                        wat_line, wasm_offsets, j + 1, w2m_, asm, wasm)
          ELSE OffsetLoop(
                   MachineLoop(st, wat_line, DictGet(w2m_, wasm_offset), 1, asm),
                   wat_line, wasm_offsets, j + 1, w2m_, asm, wasm)

\* Mutant of the outer loop: the list of the source line is looked up in
\* the defaultdict before its offsets are visited, which creates it.
RECURSIVE LineLoop_TouchesKey(_, _, _, _, _, _)
LineLoop_TouchesKey(st, l2w_, i, w2m_, asm, wasm) ==
    IF i > Len(l2w_) \/ st.exc # "" THEN st
    ELSE LineLoop_TouchesKey(
             OffsetLoop([st EXCEPT !.res = IF DictHas(@, l2w_[i].k) THEN @
                                           ELSE DictSet(@, l2w_[i].k, <<>>)],
                        l2w_[i].k, l2w_[i].v, 1, w2m_, asm, wasm),
             l2w_, i + 1, w2m_, asm, wasm)

RECURSIVE LineLoop(_, _, _, _, _, _)
LineLoop(st, l2w_, i, w2m_, asm, wasm) ==
    IF i > Len(l2w_) \/ st.exc # "" THEN st
    ELSE LineLoop(OffsetLoop(st, l2w_[i].k, l2w_[i].v, 1, w2m_, asm, wasm),
                  l2w_, i + 1, w2m_, asm, wasm)

ComposeMaps(l2w_, w2m_, asm, wasm) ==
    LineLoop([res |-> <<>>, diag |-> <<>>, exc |-> ""], l2w_, 1, w2m_, asm, wasm)

\* -------------------------------------------------------------------- dis
\* sub in s
Contains(s, sub) ==
    \E i \in 1..(Len(s) - Len(sub) + 1) : SubSeq(s, i, i + Len(sub) - 1) = sub

\* s.replace(old, new): every occurrence, from the left, without overlap.
RECURSIVE Replace(_, _, _)
Replace(s, old, new) ==
    LET hits == {i \in 1..(Len(s) - Len(old) + 1) : SubSeq(s, i, i + Len(old) - 1) = old}
    IN  IF hits = {} THEN s
        ELSE LET i == CHOOSE h \in hits : \A g \in hits : h <= g
             IN  SubSeq(s, 1, i - 1) \o new
                   \o Replace(SubSeq(s, i + Len(old), Len(s)), old, new)

\* sep.join(list)
RECURSIVE Join(_, _)
Join(list, sep) ==
    IF Len(list) = 0 THEN ""
    ELSE IF Len(list) = 1 THEN list[1]
    ELSE list[1] \o sep \o Join(Tail(list), sep)

\* str(n) for n >= 0, as an f-string formats it.
DecDigitChars == <<"0", "1", "2", "3", "4", "5", "6", "7", "8", "9">>

RECURSIVE Str(_)
Str(n) ==
    IF n < 10 THEN DecDigitChars[n + 1]
    ELSE Str(n \div 10) \o DecDigitChars[(n % 10) + 1]

BodyMarker == "Function or wrapper body, padded to 4B"

\* Mutant of the loop of process_dis_output: the scan goes on after the
\* first empty line.
RECURSIVE ProcessDisOutputLoop_NoBreak(_, _, _)
ProcessDisOutputLoop_NoBreak(st, i, n) ==
    IF i >= n THEN st
    ELSE LET line == st.dis_lines_list[i + 1]
             Renamed(name) == [st.dis_lines_list EXCEPT ![i + 1] = Replace(line, BodyMarker, name)]
         IN
         IF Contains(line, BodyMarker)
         THEN IF st.need_to_replace_trap_handle
              THEN ProcessDisOutputLoop_NoBreak(
                       [st EXCEPT !.need_to_replace_trap_handle = FALSE,
                                  !.dis_lines_list = Renamed("GenericTrapHandler Body")],
                       i + 1, n)
              ELSE IF st.need_to_replace_landing_pad
              THEN ProcessDisOutputLoop_NoBreak(
                       [st EXCEPT !.need_to_replace_landing_pad = FALSE,
                                  !.dis_lines_list = Renamed("LandingPad Body")],
                       i + 1, n)
              ELSE IF st.need_to_replace_extension_request
              THEN ProcessDisOutputLoop_NoBreak(
                       [st EXCEPT !.need_to_replace_extension_request = FALSE,
                                  !.dis_lines_list = Renamed("ExtensionRequest Body")],
                       i + 1, n)
              ELSE ProcessDisOutputLoop_NoBreak(
                       [st EXCEPT !.func_positions = Append(@, i),
                                  !.dis_lines_list =
                                      Renamed("Function[" \o Str(st.cnt) \o "] Body"),
                                  !.cnt = @ + 1],
                       i + 1, n)
         ELSE IF line = ""
         THEN ProcessDisOutputLoop_NoBreak([st EXCEPT !.func_positions = Append(@, i)],
                                           i + 1, n)
         ELSE ProcessDisOutputLoop_NoBreak(st, i + 1, n)

\* process_dis_output, lines 39-64: one turn of the loop per line, st
\* holding the locals.
RECURSIVE ProcessDisOutputLoop(_, _, _)
ProcessDisOutputLoop(st, i, n) ==
    IF i >= n THEN st
    ELSE LET line == st.dis_lines_list[i + 1]
             Renamed(name) == [st.dis_lines_list EXCEPT ![i + 1] = Replace(line, BodyMarker, name)]
         IN
         IF Contains(line, BodyMarker)
         THEN IF st.need_to_replace_trap_handle
              THEN ProcessDisOutputLoop(
                       [st EXCEPT !.need_to_replace_trap_handle = FALSE,
                                  !.dis_lines_list = Renamed("GenericTrapHandler Body")],
                       i + 1, n)
              ELSE IF st.need_to_replace_landing_pad
              THEN ProcessDisOutputLoop(
                       [st EXCEPT !.need_to_replace_landing_pad = FALSE,
                                  !.dis_lines_list = Renamed("LandingPad Body")],
                       i + 1, n)
              ELSE IF st.need_to_replace_extension_request
              THEN ProcessDisOutputLoop(
                       [st EXCEPT !.need_to_replace_extension_request = FALSE,
                                  !.dis_lines_list = Renamed("ExtensionRequest Body")],
                       i + 1, n)
              ELSE ProcessDisOutputLoop(
                       [st EXCEPT !.func_positions = Append(@, i),
                                  !.dis_lines_list =
                                      Renamed("Function[" \o Str(st.cnt) \o "] Body"),
                                  !.cnt = @ + 1],
                       i + 1, n)
         ELSE IF line = ""
         THEN [st EXCEPT !.func_positions = Append(@, i)]
         ELSE ProcessDisOutputLoop(st, i + 1, n)

\* process_dis_output(dis_lines, config, has_memory), lines 31-38 and 65.
ProcessDisOutput(dis_lines, config, has_memory) ==
    LET checks == DictGet(config, "LINEAR_MEMORY_BOUNDS_CHECKS")
        done == ProcessDisOutputLoop(
                  [dis_lines_list |-> Split(dis_lines, "\n"),
                   need_to_replace_trap_handle |-> TRUE,
                   need_to_replace_landing_pad |-> checks = "0",
                   need_to_replace_extension_request |-> (checks = "1" /\ has_memory),
                   cnt |-> 0,
                   func_positions |-> <<>>],
                  0, Len(Split(dis_lines, "\n")))
    IN  [text |-> Join(done.dis_lines_list, "\n"), func_positions |-> done.func_positions]

\* ------------------------------------------------------ debug_info_gen_test
\* get_check_prefix: the prefix with its colon, left-justified in 24
\* columns.
GetCheckPrefix(base_prefix, is_next) ==
    LET s == IF is_next THEN base_prefix \o "-NEXT:" ELSE base_prefix \o ":"
    IN  s \o Join(Repeat(" ", Max(0, 24 - Len(s))), "")

\* get_dwo_file_check_prefix
GetDwoFileCheckPrefix(file_check_prefix) == "DWO_" \o file_check_prefix

\* list.sort(key=lambda x: x[0]) on the items of a dict: an insertion
\* sort that keeps the order of equal keys.
RECURSIVE SortByKey(_)
SortByKey(items) ==
    IF Len(items) <= 1 THEN items
    ELSE LET front == SortByKey(SubSeq(items, 1, Len(items) - 1))
             x     == items[Len(items)]
             n     == Cardinality({i \in 1..Len(front) : front[i].k <= x.k})
         IN  SubSeq(front, 1, n) \o <<x>> \o SubSeq(front, n + 1, Len(front))

\* get_output, lines 75-90: the entries of each source line in the order
\* of the source lines, each with the text of its assembly line after the
\* first space, stripped. ok is FALSE for the IndexError of line 82 and
\* for the assertion of line 84.
GetOutput(wat_line_to_assembly_line, assembly) ==
    LET items == SortByKey(wat_line_to_assembly_line)
        assembly_list == Split(assembly, "\n")
        Text(assembly_line_index) ==
            LET assembly_line == PyIndex(assembly_list, assembly_line_index).value
                first_space == CHOOSE i \in 1..Len(assembly_line) :
                                  /\ Ch(assembly_line, i) = " "
                                  /\ \A j \in 1..(i - 1) : Ch(assembly_line, j) # " "
            IN  Strip(SubSeq(assembly_line, first_space + 1, Len(assembly_line)))
        ok == \A e \in 1..Len(items) : \A n \in 1..Len(items[e].v) :
                 /\ PyIndex(assembly_list, items[e].v[n]).ok
                 /\ Contains(PyIndex(assembly_list, items[e].v[n]).value, " ")
    IN  [ok |-> ok,
         results |->
            IF ok
            THEN Flatten([e \in 1..Len(items) |->
                            <<>> \o [n \in 1..Len(items[e].v) |->
                                       [wat_line_index |-> items[e].k,
                                        assembly_line |-> Text(items[e].v[n])]]])
            ELSE <<>>]

\* skip(current), lines 163-169
RECURSIVE Skip(_, _)
Skip(wat_lines, current) ==
    IF current < Len(wat_lines)
         /\ (StartsWith(wat_lines[current + 1], ";;") \/ Len(wat_lines[current + 1]) = 0)
    THEN Skip(wat_lines, current + 1)
    ELSE current

\* run, lines 179-191: the while loop that emits the entries of one
\* target for the current wat line. st holds new_wat_lines,
\* file_check_line_offset and debug_info_index.
RECURSIVE EmitLoop(_, _, _, _)
EmitLoop(st, expected_debug_info, wat_line_index, base_prefix) ==
    IF st.debug_info_index < Len(expected_debug_info)
         /\ expected_debug_info[st.debug_info_index + 1].wat_line_index = wat_line_index
    THEN LET file_check_line_offset == st.file_check_line_offset + 1
             file_check_prefix == GetCheckPrefix(base_prefix, st.debug_info_index # 0)
         IN  EmitLoop(
                 [new_wat_lines |->
                     Append(st.new_wat_lines,
                            ";; " \o file_check_prefix \o " [[@LINE-"
                              \o Str(file_check_line_offset) \o "]]: "
                              \o expected_debug_info[st.debug_info_index + 1].assembly_line),
                  file_check_line_offset |-> file_check_line_offset,
                  debug_info_index |-> st.debug_info_index + 1],
                 expected_debug_info, wat_line_index, base_prefix)
    ELSE st

\* run, lines 176-192: the loop over the targets for the current wat line,
\* from target t on. st holds new_wat_lines, file_check_line_offset and
\* debug_info_indexes.
RECURSIVE TargetLoop_OffsetPerTarget(_, _, _, _, _)
TargetLoop_OffsetPerTarget(st, t, expected_debug_info_map, prefix_map, wat_line_index) ==
    IF t > Len(expected_debug_info_map) THEN st
    ELSE LET target_name == expected_debug_info_map[t].k
             done == EmitLoop(
                         [new_wat_lines |-> st.new_wat_lines,
                          file_check_line_offset |-> 0,
                          debug_info_index |-> DictGet(st.debug_info_indexes, target_name)],
                         expected_debug_info_map[t].v, wat_line_index,
                         DictGet(prefix_map, target_name))
         IN  TargetLoop_OffsetPerTarget(
                 [new_wat_lines |-> done.new_wat_lines,
                  file_check_line_offset |-> done.file_check_line_offset,
                  debug_info_indexes |->
                     <<>> \o [i \in 1..Len(st.debug_info_indexes) |->
                                IF st.debug_info_indexes[i].k = target_name
                                THEN [k |-> target_name, v |-> done.debug_info_index]
                                ELSE st.debug_info_indexes[i]]],
                 t + 1, expected_debug_info_map, prefix_map, wat_line_index)

RECURSIVE TargetLoop(_, _, _, _, _)
TargetLoop(st, t, expected_debug_info_map, prefix_map, wat_line_index) ==
    IF t > Len(expected_debug_info_map) THEN st
    ELSE LET target_name == expected_debug_info_map[t].k
             done == EmitLoop(
                         [new_wat_lines |-> st.new_wat_lines,
                          file_check_line_offset |-> st.file_check_line_offset,
                          debug_info_index |-> DictGet(st.debug_info_indexes, target_name)],
                         expected_debug_info_map[t].v, wat_line_index,
                         DictGet(prefix_map, target_name))
         IN  TargetLoop(
                 [new_wat_lines |-> done.new_wat_lines,
                  file_check_line_offset |-> done.file_check_line_offset,
                  debug_info_indexes |->
                     <<>> \o [i \in 1..Len(st.debug_info_indexes) |->
                                IF st.debug_info_indexes[i].k = target_name
                                THEN [k |-> target_name, v |-> done.debug_info_index]
                                ELSE st.debug_info_indexes[i]]],
                 t + 1, expected_debug_info_map, prefix_map, wat_line_index)

\* run, lines 172-194: the loop over the wat lines that are kept.
RECURSIVE UpdateLoop(_, _, _, _, _)
UpdateLoop(st, wat_lines, wat_line_index, expected_debug_info_map, prefix_map) ==
    IF wat_line_index < Len(wat_lines)
    THEN LET done == TargetLoop([new_wat_lines |-> Append(st.new_wat_lines,
                                                       wat_lines[wat_line_index + 1]),
                                 file_check_line_offset |-> 0,
                                 debug_info_indexes |-> st.debug_info_indexes],
                                1, expected_debug_info_map, prefix_map, wat_line_index)
         IN  UpdateLoop([new_wat_lines |-> Append(done.new_wat_lines, ""),
                         debug_info_indexes |-> done.debug_info_indexes],
                        wat_lines, Skip(wat_lines, wat_line_index + 1),
                        expected_debug_info_map, prefix_map)
    ELSE st

\* run, lines 197-207: the check comments of the DWO dump of each target.
DwoDumpLines(expected_dwo_dump_map, prefix_map) ==
    Flatten([t \in 1..Len(expected_dwo_dump_map) |->
        LET prefix == GetDwoFileCheckPrefix(DictGet(prefix_map, expected_dwo_dump_map[t].k))
            expected_dwo_dump_lines == Split(expected_dwo_dump_map[t].v, "\n")
        IN  (<<>> \o [i \in 1..Len(expected_dwo_dump_lines) |->
                        IF Len(expected_dwo_dump_lines[i]) = 0
                        THEN ";; " \o prefix \o "-EMPTY:"
                        ELSE ";; " \o GetCheckPrefix(prefix, i - 1 # 0) \o " "
                               \o expected_dwo_dump_lines[i]])
              \o <<"">>])

\* run with --update, lines 156-209: the text written back to the case
\* file, from the entries and the DWO dump of every target.
RunUpdate(wat_str, expected_debug_info_map, expected_dwo_dump_map, prefix_map) ==
    LET wat_lines == Split(wat_str, "\n")
        done == UpdateLoop(
                    [new_wat_lines |->
                        <<";; auto-generated by scripts/debug_info_gen_test.py --update">>,
                     debug_info_indexes |->
                        <<>> \o [t \in 1..Len(expected_debug_info_map) |->
                                   [k |-> expected_debug_info_map[t].k, v |-> 0]]],
                    wat_lines, Skip(wat_lines, 0), expected_debug_info_map, prefix_map)
    IN  Join(done.new_wat_lines \o DwoDumpLines(expected_dwo_dump_map, prefix_map), "\n")

\* -------------------------------------------------------------- lib_dwarf
\* Guest linear memory is a function from the addresses whose content is
\* known (written by the host or by the guest and not freed since) to bytes.
InBounds(a, n) == a >= 0 /\ a + n <= MemSize

Region(a, n) == {a + i : i \in 0..(n - 1)}

EmptyMemory == [a \in {} |-> 0]

\* write_to_linear_memory
WriteToLinearMemory(m, p, data) ==
    [a \in DOMAIN m \cup {x \in Region(p, Len(data)) : x < MemSize} |->
        IF a \in Region(p, Len(data)) THEN data[a - p + 1] ELSE m[a]]

\* read_from_linear_memory, where every address is known
ReadFromLinearMemory(m, p, size) == [i \in 1..size |-> m[p + i - 1]]

Known(m, a, n) == Region(a, n) \subseteq DOMAIN m

\* The guest frees a region: its content is no longer known.
Free(m, a, n) == [x \in DOMAIN m \ Region(a, n) |-> m[x]]

\* The content of a region is no longer tracked (p is None: no region).
Forget(m, p, n) == IF p = PyNone THEN m ELSE Free(m, p, n)

\* The canonical ABI stores a u32 little-endian.
LE32(n) == <<n % 256, (n \div 256) % 256, (n \div 65536) % 256,
             (n \div 16777216) % 256>>

\* ------------------------------------------------------------------ inputs
\* Binary modules as wat_to_wasm emits them: the 8-byte preamble, then
\* sections (id, size, payload).
Preamble == <<0, 97, 115, 109, 1, 0, 0, 0>>
TypeSection == <<1, 4, 1, 96, 0, 0>>
FunctionSection == <<3, 2, 1, 0>>
MemorySection == <<5, 3, 1, 0, 1>>

\* One function of 10 bytes: the code section's content starts at offset 21
\* and the module is 32 bytes long.
ModuleA ==
    Preamble \o TypeSection \o FunctionSection
      \o <<10, 12, 1, 10, 0, 65, 0, 65, 0, 26, 26, 1, 1, 11>>

\* With a memory, one function of 13 bytes with a memory.fill (0xFC 0x0B)
\* at offset 36: the code section's content starts at offset 26 and the
\* module is 40 bytes long.
ModuleB ==
    Preamble \o TypeSection \o FunctionSection \o MemorySection
      \o <<10, 15, 1, 13, 0, 1, 1, 65, 0, 65, 0, 65, 0, 252, 11, 0, 11>>

\* No code section.
ModuleC == Preamble \o TypeSection \o FunctionSection

WasmModules == {ModuleA, ModuleB, ModuleC}

\* The debug blob the compiler hands out; only the guest interprets it.
DwoBlobs == {<<100, 119, 111>>}

\* Disassembly texts: a data line starts with its machine-code offset.
AssemblyA ==
    "Function[0] Body\n0 nop\n4 nop\n\nFunction[1] Body\nff8 nop\nffc nop\n1000 ret"
AssemblyB == AssemblyA \o "\n1004 ret"
AssemblyC == "Function[0] Body"

Assemblies == {AssemblyA, AssemblyB, AssemblyC}

SeqsUpTo(S, n) == UNION {[1..k -> S] : k \in 0..n}

\* What the guest decodes: records {line, address}. For the debug blob a
\* record's line is a wasm offset and its address a machine-code offset;
\* for the binary module its line is a source line and its address an
\* offset into the code section.
DwoRecords ==
    {[line |-> 31, address |-> 4096], [line |-> 31, address |-> 4100],
     [line |-> 37, address |-> 4096]}
WasmRecords ==
    {[line |-> 3, address |-> 10], [line |-> 3, address |-> 11],
     [line |-> 4, address |-> 10]}

\* The bytes of a line-map buffer: a JSON array of records, a text that is
\* not JSON, or bytes that are not UTF-8; len is the number of bytes.
RECURSIVE DecLen(_)
DecLen(n) == IF n < 10 THEN 1 ELSE 1 + DecLen(n \div 10)

RECURSIVE JsonRecsLen(_)
JsonRecsLen(recs) ==
    IF Len(recs) = 0 THEN 0
    ELSE 20 + DecLen(recs[1].line) + DecLen(recs[1].address)
           + (IF Len(recs) > 1 THEN 1 ELSE 0) + JsonRecsLen(Tail(recs))

JsonPayload(recs) == [kind |-> "json", recs |-> recs, len |-> 2 + JsonRecsLen(recs)]
TextPayload == [kind |-> "text", recs |-> <<>>, len |-> 1]
EmptyPayload == [kind |-> "text", recs |-> <<>>, len |-> 0]
BinaryPayload == [kind |-> "binary", recs |-> <<>>, len |-> 2]
NoPayload == [kind |-> "none", recs |-> <<>>, len |-> 0]

Payloads(st) ==
    {JsonPayload(s) :
        s \in SeqsUpTo(IF st = "dwo" THEN DwoRecords ELSE WasmRecords, MaxRecs)}
      \cup {TextPayload, BinaryPayload}

\* Pointers the guest hands out. cabi_realloc returns 0 when it cannot
\* allocate; a struct at MemSize - 4 has its second field out of bounds.
AllocPtrs == {0, 1024}
StructPtrs == {2048, MemSize - 4}
DataPtrs == {4096}
\* What a read of unknown memory can yield: for a u32, and for a payload
\* (bytes that are no line map: not UTF-8, or a text that is not JSON).
GarbageWords == {0, MemSize}
GarbagePayloads == {TextPayload, BinaryPayload}

Req == 1..NumRequests

\* ------------------------------------------------------------------- state
VARIABLES
    alive,       \* the server process is running
    nextReq,     \* the next request in arrival order
    pc,          \* where each request's handler is
    req,         \* each request's inputs: wasm, assembly, dwo
    exc,         \* the exception a request's handler raised ("" for none)
    stage,       \* which binary the bridge decodes: "dwo" or "wasm"
    dwarf_ptr,   \* DWO.__enter__: dwarf_ptr
    dwo,         \* DWO: self.dwo
    json_struct_ptr, json_ptr, json_length,   \* get_wasm_wat_mapping's locals
    debug_line,  \* get_wasm_wat_mapping: the decoded text
    calls,       \* the guest calls and memory accesses of the session so far
    dwoRecs,     \* decode_dwarf: debug_line (the parsed records)
    wasm_offset_to_machine_code_offset,
    code_section_offset,
    wasmRecs,    \* parse_dwarf_in_wasm: mapping (the parsed records)
    wat_line_to_wasm_offset,
    machine_code_offset_to_disassembly_line,
    wat_line_to_assembly_line,  \* the returned dict
    diag,        \* the misses logged by logging.info
    mem,         \* guest linear memory
    live,        \* the handles the guest has created and not destroyed
    guestBuf,    \* the line-map buffer the guest holds for each request
    pure_in,     \* the arguments of a helper called on its own
    pure_fn,     \* the helper that was called ("" before the call)
    pure_out     \* what the helper returned or raised

serverVars == <<alive, nextReq, req>>
bridgeVars == <<dwarf_ptr, dwo, json_struct_ptr, json_ptr, json_length,
                debug_line, calls>>
engineVars == <<dwoRecs, wasm_offset_to_machine_code_offset, code_section_offset,
                wasmRecs, wat_line_to_wasm_offset,
                machine_code_offset_to_disassembly_line,
                wat_line_to_assembly_line, diag>>
guestVars == <<mem, live, guestBuf>>
pureVars == <<pure_in, pure_fn, pure_out>>
vars == <<pc, exc, stage, serverVars, bridgeVars, engineVars, guestVars, pureVars>>

NoReq == [wasm |-> <<>>, assembly |-> "", dwo |-> <<>>]
NoBuf == [struct |-> 0, data |-> 0, payload |-> NoPayload]
NoInput == [kind |-> "none"]
NoOutput == [ok |-> FALSE]

\* The server before its first request.
ServerInit ==
    /\ alive = TRUE
    /\ nextReq = 1
    /\ pc = [r \in Req |-> "idle"]
    /\ req = [r \in Req |-> NoReq]
    /\ exc = [r \in Req |-> ""]
    /\ stage = [r \in Req |-> ""]
    /\ dwarf_ptr = [r \in Req |-> PyNone]
    /\ dwo = [r \in Req |-> PyNone]
    /\ json_struct_ptr = [r \in Req |-> PyNone]
    /\ json_ptr = [r \in Req |-> PyNone]
    /\ json_length = [r \in Req |-> PyNone]
    /\ debug_line = [r \in Req |-> NoPayload]
    /\ calls = [r \in Req |-> <<>>]
    /\ dwoRecs = [r \in Req |-> <<>>]
    /\ wasm_offset_to_machine_code_offset = [r \in Req |-> <<>>]
    /\ code_section_offset = [r \in Req |-> 0]
    /\ wasmRecs = [r \in Req |-> <<>>]
    /\ wat_line_to_wasm_offset = [r \in Req |-> <<>>]
    /\ machine_code_offset_to_disassembly_line = [r \in Req |-> <<>>]
    /\ wat_line_to_assembly_line = [r \in Req |-> <<>>]
    /\ diag = [r \in Req |-> <<>>]
    /\ mem = EmptyMemory
    /\ live = {}
    /\ guestBuf = [r \in Req |-> NoBuf]

Init ==
    /\ ServerInit
    /\ pure_in = NoInput
    /\ pure_fn = ""
    /\ pure_out = NoOutput

\* ------------------------------------------------------------------ server
\* HTTPServer.serve_forever handles one request at a time: a request is
\* taken only when no handler is running.
Running == {r \in Req : pc[r] \notin {"idle", "done"}}

\* Mutant: a threading server takes a request while another is handled.
ServerIdle_Threaded == TRUE

ServerIdle == Running = {}

\* The binary the current bridge session decodes.
Binary(r) == IF stage[r] = "dwo" THEN req[r].dwo ELSE req[r].wasm

Call(r, op, args) == calls' = [calls EXCEPT ![r] = Append(@, [op |-> op, args |-> args])]

\* do_POST -> do_POST_api_dis -> disassemble_wat -> analyze_debug_info_in_dwarf
\* -> decode_dwarf -> get_wasm_wat_mapping(binary=dwo): the request's inputs
\* are fixed and the first bridge session starts.
Accept(r) ==
    /\ UNCHANGED pureVars
    /\ alive
    /\ r = nextReq
    /\ pc[r] = "idle"
    /\ ServerIdle
    /\ \E w \in WasmModules, a \in Assemblies, d \in DwoBlobs :
          req' = [req EXCEPT ![r] = [wasm |-> w, assembly |-> a, dwo |-> d]]
    /\ nextReq' = nextReq + 1
    /\ pc' = [pc EXCEPT ![r] = "alloc"]
    /\ stage' = [stage EXCEPT ![r] = "dwo"]
    /\ UNCHANGED <<alive, exc, bridgeVars, engineVars, guestVars>>

\* The process dies on a fault: the guest instance goes with it.
Crash(r) ==
    /\ alive' = FALSE
    /\ live' = {}
    /\ pc' = [pc EXCEPT ![r] = "crashed"]

\* ------------------------------------------------------------------ bridge
\* DWO.__enter__, line 50: cabi_realloc returns a pointer or traps. A trap
\* in __enter__ leaves the with statement without running __exit__.
Alloc(r) ==
    /\ UNCHANGED pureVars
    /\ alive /\ pc[r] = "alloc"
    /\ Call(r, "cabi_realloc", <<0, 0, 4, Len(Binary(r))>>)
    /\ \/ \E p \in AllocPtrs :
            /\ dwarf_ptr' = [dwarf_ptr EXCEPT ![r] = p]
            /\ pc' = [pc EXCEPT ![r] = "write"]
            /\ exc' = exc
       \/ /\ exc' = [exc EXCEPT ![r] = "Trap"]
          /\ pc' = [pc EXCEPT ![r] = "raised"]
          /\ dwarf_ptr' = dwarf_ptr
    /\ UNCHANGED <<stage, serverVars, dwo, json_struct_ptr, json_ptr, json_length,
                   debug_line, engineVars, guestVars>>

\* DWO.__enter__, line 51.
Write(r) ==
    /\ UNCHANGED pureVars
    /\ alive /\ pc[r] = "write"
    /\ mem' = WriteToLinearMemory(mem, dwarf_ptr[r], Binary(r))
    /\ Call(r, "write", <<dwarf_ptr[r], Len(Binary(r))>>)
    /\ pc' = [pc EXCEPT ![r] = "create"]
    /\ UNCHANGED <<exc, stage, serverVars, dwarf_ptr, dwo, json_struct_ptr, json_ptr,
                   json_length, debug_line, engineVars, live, guestBuf>>

\* The guest numbers a new handle with the first number not in use.
NewHandle == CHOOSE h \in 1..(Cardinality(live) + 1) :
                 h \notin live /\ \A g \in 1..(h - 1) : g \in live

\* DWO.__enter__, lines 52-53: dwo-create returns a new handle or traps.
Create(r) ==
    /\ UNCHANGED pureVars
    /\ alive /\ pc[r] = "create"
    /\ Call(r, "dwo-create", <<dwarf_ptr[r], Len(Binary(r))>>)
    /\ \/ /\ dwo' = [dwo EXCEPT ![r] = NewHandle]
          /\ live' = live \cup {NewHandle}
          /\ pc' = [pc EXCEPT ![r] = "getmap"]
          /\ exc' = exc
       \/ /\ exc' = [exc EXCEPT ![r] = "Trap"]
          /\ pc' = [pc EXCEPT ![r] = "raised"]
          /\ UNCHANGED <<dwo, live>>
    /\ UNCHANGED <<stage, serverVars, dwarf_ptr, json_struct_ptr, json_ptr,
                   json_length, debug_line, engineVars, mem, guestBuf>>

\* get_wasm_wat_mapping, line 61: the guest builds the line map, stores
\* {dataPointer, length} at a struct pointer and returns it, or traps.
GetLineMap(r) ==
    /\ UNCHANGED pureVars
    /\ alive /\ pc[r] = "getmap"
    /\ Call(r, "dwo-get-line-map", <<dwo[r]>>)
    /\ \/ \E sp \in StructPtrs, dp \in DataPtrs, p \in Payloads(stage[r]) :
            /\ json_struct_ptr' = [json_struct_ptr EXCEPT ![r] = sp]
            /\ guestBuf' = [guestBuf EXCEPT
                              ![r] = [struct |-> sp, data |-> dp, payload |-> p]]
            /\ mem' = WriteToLinearMemory(mem, sp, LE32(dp) \o LE32(p.len))
            /\ pc' = [pc EXCEPT ![r] = "readptr"]
            /\ exc' = exc
       \/ /\ exc' = [exc EXCEPT ![r] = "Trap"]
          /\ pc' = [pc EXCEPT ![r] = "exit"]
          /\ UNCHANGED <<json_struct_ptr, guestBuf, mem>>
    /\ UNCHANGED <<stage, serverVars, dwarf_ptr, dwo, json_ptr, json_length,
                   debug_line, engineVars, live>>

\* read_from_linear_memory of a u32 indexes a raw pointer without a bounds
\* check. Known bytes are returned; unknown bytes are whatever is there; out
\* of bounds the read may also fault.
ReadWord(m, a) ==
    IF Known(m, a, 4)
    THEN {[crash |-> FALSE, value |-> FromBytesLittle(ReadFromLinearMemory(m, a, 4))]}
    ELSE {[crash |-> FALSE, value |-> g] : g \in GarbageWords}
           \cup (IF InBounds(a, 4) THEN {} ELSE {[crash |-> TRUE, value |-> 0]})

\* get_wasm_wat_mapping, line 62.
ReadPtrAddr(r) == json_struct_ptr[r]

ReadPtr(r) ==
    /\ UNCHANGED pureVars
    /\ alive /\ pc[r] = "readptr"
    /\ Call(r, "read", <<ReadPtrAddr(r), 4>>)
    /\ \E o \in ReadWord(mem, ReadPtrAddr(r)) :
          IF o.crash
          THEN Crash(r) /\ UNCHANGED <<json_ptr>>
          ELSE /\ json_ptr' = [json_ptr EXCEPT ![r] = o.value]
               /\ pc' = [pc EXCEPT ![r] = "readlen"]
               /\ UNCHANGED <<alive, live>>
    /\ UNCHANGED <<exc, stage, nextReq, req, dwarf_ptr, dwo, json_struct_ptr,
                   json_length, debug_line, engineVars, mem, guestBuf>>

\* Mutant: the length is read from the struct's first word.
ReadLenAddr_SameWord(r) == json_struct_ptr[r]

\* get_wasm_wat_mapping, lines 63-65.
ReadLenAddr(r) == json_struct_ptr[r] + 4

ReadLen(r) ==
    /\ UNCHANGED pureVars
    /\ alive /\ pc[r] = "readlen"
    /\ Call(r, "read", <<ReadLenAddr(r), 4>>)
    /\ \E o \in ReadWord(mem, ReadLenAddr(r)) :
          IF o.crash
          THEN Crash(r) /\ UNCHANGED <<json_length>>
          ELSE /\ json_length' = [json_length EXCEPT ![r] = o.value]
               /\ pc' = [pc EXCEPT ![r] = "readdata"]
               /\ UNCHANGED <<alive, live>>
    /\ UNCHANGED <<exc, stage, nextReq, req, dwarf_ptr, dwo, json_struct_ptr,
                   json_ptr, debug_line, engineVars, mem, guestBuf>>

\* read_from_linear_memory of the payload: the guest's buffer when the
\* region read is that buffer, no bytes for a length of 0, and otherwise
\* whatever is there; out of bounds the read may also fault.
ReadBytes(r, a, n) ==
    IF InBounds(a, n) /\ guestBuf[r].data = a /\ guestBuf[r].payload.len = n
                      /\ guestBuf[r].payload.kind # "none"
    THEN {[crash |-> FALSE, payload |-> guestBuf[r].payload]}
    ELSE IF n = 0 THEN {[crash |-> FALSE, payload |-> EmptyPayload]}
    ELSE {[crash |-> FALSE, payload |-> p] : p \in GarbagePayloads}
           \cup (IF InBounds(a, n) THEN {} ELSE {[crash |-> TRUE, payload |-> NoPayload]})

\* get_wasm_wat_mapping, line 66: read, then decode as UTF-8.
ReadData(r) ==
    /\ UNCHANGED pureVars
    /\ alive /\ pc[r] = "readdata"
    /\ Call(r, "read", <<json_ptr[r], json_length[r]>>)
    /\ \E o \in ReadBytes(r, json_ptr[r], json_length[r]) :
          IF o.crash
          THEN Crash(r) /\ UNCHANGED <<debug_line, exc>>
          ELSE IF o.payload.kind = "binary"
          THEN /\ exc' = [exc EXCEPT ![r] = "UnicodeDecodeError"]
               /\ pc' = [pc EXCEPT ![r] = "exit"]
               /\ UNCHANGED <<debug_line, alive, live>>
          ELSE /\ debug_line' = [debug_line EXCEPT ![r] = o.payload]
               /\ pc' = [pc EXCEPT ![r] = "post"]
               /\ UNCHANGED <<exc, alive, live>>
    /\ UNCHANGED <<stage, nextReq, req, dwarf_ptr, dwo, json_struct_ptr, json_ptr,
                   json_length, engineVars, mem, guestBuf>>

\* get_wasm_wat_mapping, line 67: the guest frees the line-map buffer, or
\* traps.
PostReturn(r) ==
    /\ UNCHANGED pureVars
    /\ alive /\ pc[r] = "post"
    /\ Call(r, "cabi_post_dwo-get-line-map", <<json_struct_ptr[r]>>)
    /\ pc' = [pc EXCEPT ![r] = "exit"]
    /\ \/ /\ mem' = Free(mem, json_struct_ptr[r], 8)
          /\ guestBuf' = [guestBuf EXCEPT ![r] = NoBuf]
          /\ exc' = exc
       \/ /\ exc' = [exc EXCEPT ![r] = "Trap"]
          /\ UNCHANGED <<mem, guestBuf>>
    /\ UNCHANGED <<stage, serverVars, dwarf_ptr, dwo, json_struct_ptr, json_ptr,
                   json_length, debug_line, engineVars, live>>

\* Mutant: dwo-destroy is called at the end of the with body only, not
\* when an exception leaves it.
DWOExit_SuccessOnly(r) ==
    /\ UNCHANGED pureVars
    /\ alive /\ pc[r] = "exit"
    /\ IF exc[r] = ""
       THEN /\ Call(r, "dwo-destroy", <<dwo[r]>>)
            /\ live' = live \ {dwo[r]}
            /\ mem' = Free(mem, dwarf_ptr[r], Len(Binary(r)))
       ELSE UNCHANGED <<calls, live, mem>>
    /\ pc' = [pc EXCEPT ![r] = IF exc[r] = "" THEN "mapped" ELSE "raised"]
    /\ UNCHANGED <<exc, stage, serverVars, dwarf_ptr, dwo, json_struct_ptr, json_ptr,
                   json_length, debug_line, engineVars, guestBuf>>

\* DWO.__exit__, line 56, on the way out of the with statement, by return
\* or by exception: dwo-destroy releases the handle and the blob; the
\* exception, if any, propagates.
DWOExit(r) ==
    /\ UNCHANGED pureVars
    /\ alive /\ pc[r] = "exit"
    /\ Call(r, "dwo-destroy", <<dwo[r]>>)
    /\ live' = live \ {dwo[r]}
    /\ mem' = Free(mem, dwarf_ptr[r], Len(Binary(r)))
    /\ pc' = [pc EXCEPT ![r] = IF exc[r] = "" THEN "mapped" ELSE "raised"]
    /\ UNCHANGED <<exc, stage, serverVars, dwarf_ptr, dwo, json_struct_ptr, json_ptr,
                   json_length, debug_line, engineVars, guestBuf>>

\* The locals of get_wasm_wat_mapping and of its DWO object go when it
\* returns.
DropSession(r) ==
    /\ dwarf_ptr' = [dwarf_ptr EXCEPT ![r] = PyNone]
    /\ dwo' = [dwo EXCEPT ![r] = PyNone]
    /\ json_struct_ptr' = [json_struct_ptr EXCEPT ![r] = PyNone]
    /\ json_ptr' = [json_ptr EXCEPT ![r] = PyNone]
    /\ json_length' = [json_length EXCEPT ![r] = PyNone]
    /\ debug_line' = [debug_line EXCEPT ![r] = NoPayload]
    /\ calls' = [calls EXCEPT ![r] = <<>>]

\* ------------------------------------------------------------------ engine
\* decode_dwarf, lines 112-120: json.loads of the text the bridge returned
\* for the debug blob, then the wasm offset -> machine-code offsets map.
LoadsDwo(r) ==
    /\ UNCHANGED pureVars
    /\ alive /\ pc[r] = "mapped" /\ stage[r] = "dwo"
    /\ IF debug_line[r].kind = "json"
       THEN /\ dwoRecs' = [dwoRecs EXCEPT ![r] = debug_line[r].recs]
            /\ wasm_offset_to_machine_code_offset' =
                 [wasm_offset_to_machine_code_offset EXCEPT
                    ![r] = DecodeDwarf(debug_line[r].recs)]
            /\ pc' = [pc EXCEPT ![r] = "code_section"]
            /\ exc' = exc
       ELSE /\ exc' = [exc EXCEPT ![r] = "JSONDecodeError"]
            /\ pc' = [pc EXCEPT ![r] = "raised"]
            /\ UNCHANGED <<dwoRecs, wasm_offset_to_machine_code_offset>>
    /\ DropSession(r)
    /\ UNCHANGED <<stage, serverVars, code_section_offset, wasmRecs,
                   wat_line_to_wasm_offset, machine_code_offset_to_disassembly_line,
                   wat_line_to_assembly_line, diag, guestVars>>

\* parse_dwarf_in_wasm, lines 56-58: the code section is located, then the
\* second bridge session starts, on the binary module.
CodeSection(r) ==
    /\ UNCHANGED pureVars
    /\ alive /\ pc[r] = "code_section"
    /\ LET cs == GetCodeSection(req[r].wasm) IN
       IF cs.ok
       THEN /\ code_section_offset' = [code_section_offset EXCEPT ![r] = cs.pos]
            /\ stage' = [stage EXCEPT ![r] = "wasm"]
            /\ pc' = [pc EXCEPT ![r] = "alloc"]
            /\ exc' = exc
       ELSE /\ exc' = [exc EXCEPT ![r] = "AssertionError"]
            /\ pc' = [pc EXCEPT ![r] = "raised"]
            /\ UNCHANGED <<code_section_offset, stage>>
    /\ UNCHANGED <<serverVars, bridgeVars, dwoRecs, wasm_offset_to_machine_code_offset,
                   wasmRecs, wat_line_to_wasm_offset,
                   machine_code_offset_to_disassembly_line,
                   wat_line_to_assembly_line, diag, guestVars>>

\* parse_dwarf_in_wasm, lines 59-62: json.loads of the text the bridge
\* returned for the binary module, then the source line -> wasm offsets map.
LoadsWasm(r) ==
    /\ UNCHANGED pureVars
    /\ alive /\ pc[r] = "mapped" /\ stage[r] = "wasm"
    /\ IF debug_line[r].kind = "json"
       THEN /\ wasmRecs' = [wasmRecs EXCEPT ![r] = debug_line[r].recs]
            /\ wat_line_to_wasm_offset' =
                 [wat_line_to_wasm_offset EXCEPT
                    ![r] = ParseDwarfInWasm(debug_line[r].recs, code_section_offset[r])]
            /\ pc' = [pc EXCEPT ![r] = "decode_dis"]
            /\ exc' = exc
       ELSE /\ exc' = [exc EXCEPT ![r] = "JSONDecodeError"]
            /\ pc' = [pc EXCEPT ![r] = "raised"]
            /\ UNCHANGED <<wasmRecs, wat_line_to_wasm_offset>>
    /\ DropSession(r)
    /\ UNCHANGED <<stage, serverVars, dwoRecs, wasm_offset_to_machine_code_offset,
                   code_section_offset, machine_code_offset_to_disassembly_line,
                   wat_line_to_assembly_line, diag, guestVars>>

\* analyze_debug_info_in_dwarf, line 81.
DecodeDisStep(r) ==
    /\ UNCHANGED pureVars
    /\ alive /\ pc[r] = "decode_dis"
    /\ machine_code_offset_to_disassembly_line' =
         [machine_code_offset_to_disassembly_line EXCEPT
            ![r] = DecodeDis(req[r].assembly)]
    /\ pc' = [pc EXCEPT ![r] = "compose"]
    /\ UNCHANGED <<exc, stage, serverVars, bridgeVars, dwoRecs,
                   wasm_offset_to_machine_code_offset, code_section_offset, wasmRecs,
                   wat_line_to_wasm_offset, wat_line_to_assembly_line, diag, guestVars>>

\* analyze_debug_info_in_dwarf, lines 86-108: the composition loops, then
\* the return of the result or the exception of a failed lookup.
Compose(r) ==
    /\ UNCHANGED pureVars
    /\ alive /\ pc[r] = "compose"
    /\ LET c == ComposeMaps(wat_line_to_wasm_offset[r],
                            wasm_offset_to_machine_code_offset[r],
                            machine_code_offset_to_disassembly_line[r],
                            req[r].wasm)
       IN  /\ diag' = [diag EXCEPT ![r] = c.diag]
           /\ IF c.exc = ""
              THEN /\ wat_line_to_assembly_line' =
                        [wat_line_to_assembly_line EXCEPT ![r] = c.res]
                   /\ pc' = [pc EXCEPT ![r] = "returned"]
                   /\ exc' = exc
              ELSE /\ exc' = [exc EXCEPT ![r] = c.exc]
                   /\ pc' = [pc EXCEPT ![r] = "raised"]
                   /\ UNCHANGED wat_line_to_assembly_line
    /\ UNCHANGED <<stage, serverVars, bridgeVars, dwoRecs,
                   wasm_offset_to_machine_code_offset, code_section_offset, wasmRecs,
                   wat_line_to_wasm_offset, machine_code_offset_to_disassembly_line,
                   guestVars>>

\* The handler's frame goes: every local of the request is dropped, and
\* no pointer into the guest memory it used is held any more.
DropRequest(r) ==
    /\ DropSession(r)
    /\ mem' = Forget(Forget(mem, json_struct_ptr[r], 8), dwarf_ptr[r], Len(Binary(r)))
    /\ req' = [req EXCEPT ![r] = NoReq]
    /\ exc' = [exc EXCEPT ![r] = ""]
    /\ stage' = [stage EXCEPT ![r] = ""]
    /\ dwoRecs' = [dwoRecs EXCEPT ![r] = <<>>]
    /\ wasm_offset_to_machine_code_offset' =
         [wasm_offset_to_machine_code_offset EXCEPT ![r] = <<>>]
    /\ code_section_offset' = [code_section_offset EXCEPT ![r] = 0]
    /\ wasmRecs' = [wasmRecs EXCEPT ![r] = <<>>]
    /\ wat_line_to_wasm_offset' = [wat_line_to_wasm_offset EXCEPT ![r] = <<>>]
    /\ machine_code_offset_to_disassembly_line' =
         [machine_code_offset_to_disassembly_line EXCEPT ![r] = <<>>]
    /\ wat_line_to_assembly_line' = [wat_line_to_assembly_line EXCEPT ![r] = <<>>]
    /\ diag' = [diag EXCEPT ![r] = <<>>]
    /\ guestBuf' = [guestBuf EXCEPT ![r] = NoBuf]

\* disassemble_wat returns and do_POST writes the response, lines 126-128.
Respond(r) ==
    /\ UNCHANGED pureVars
    /\ alive /\ pc[r] = "returned"
    /\ pc' = [pc EXCEPT ![r] = "done"]
    /\ DropRequest(r)
    /\ UNCHANGED <<alive, nextReq, live>>

\* An exception leaves do_POST: socketserver reports it, closes the
\* request and serve_forever goes on.
HandleError(r) ==
    /\ UNCHANGED pureVars
    /\ alive /\ pc[r] = "raised"
    /\ pc' = [pc EXCEPT ![r] = "done"]
    /\ DropRequest(r)
    /\ UNCHANGED <<alive, nextReq, live>>

Next ==
    \E r \in Req :
       \/ Accept(r)
       \/ Alloc(r)
       \/ Write(r)
       \/ Create(r)
       \/ GetLineMap(r)
       \/ ReadPtr(r)
       \/ ReadLen(r)
       \/ ReadData(r)
       \/ PostReturn(r)
       \/ DWOExit(r)
       \/ LoadsDwo(r)
       \/ CodeSection(r)
       \/ LoadsWasm(r)
       \/ DecodeDisStep(r)
       \/ Compose(r)
       \/ Respond(r)
       \/ HandleError(r)

Spec == Init /\ [][Next]_vars

\* ------------------------------------------------- the decoders on their own
\* Byte sequences given to leb128: every sequence of up to MaxLebLen bytes
\* over LebBytes, and sequences padded with up to MaxPadding bytes 0x80
\* (continuation bit, no payload), with or without a last byte 0x00.
LebBytes == {0, 1, 63, 64, 127, 128, 192, 255}

LebInputs ==
    UNION {[1..n -> LebBytes] : n \in 0..MaxLebLen}
    \cup {Repeat(128, k) \o t : k \in 1..MaxPadding, t \in {<<>>, <<0>>}}

\* A helper is called once on the arguments drawn at the start.
Apply(fn, out) ==
    /\ pure_fn = ""
    /\ pure_fn' = fn
    /\ pure_out' = out
    /\ UNCHANGED <<pure_in, pc, exc, stage, serverVars, bridgeVars, engineVars, guestVars>>

LebInit ==
    /\ ServerInit
    /\ pure_in \in {[kind |-> "bytes", b |-> b] : b \in LebInputs}
    /\ pure_fn = ""
    /\ pure_out = NoOutput

\* leb128.u.decode(b)
CallUDecode == Apply("u.decode", UDecode(pure_in.b))

\* leb128.i.decode(b)
CallIDecode == Apply("i.decode", IDecode(pure_in.b))

LebNext == CallUDecode \/ CallIDecode

LebSpec == LebInit /\ [][LebNext]_vars

\* --------------------------------------------- the binary reader on its own
\* The unsigned LEB128 encoding of n < 2^14, lengthened by pad bytes (a
\* varuint32 may be written longer than its shortest form).
EncU(n, pad) ==
    LET shortest == IF n < 128 THEN <<n>> ELSE <<(n % 128) + 128, n \div 128>>
        k == Len(shortest)
    IN  IF pad = 0 THEN shortest
        ELSE SubSeq(shortest, 1, k - 1) \o <<shortest[k] + 128>>
               \o Repeat(128, pad - 1) \o <<0>>

\* A section: id, size, payload.
Section(id, payload, pad) == <<id>> \o EncU(Len(payload), pad) \o payload

\* Sections that come before the code section: a type section, a function
\* section with a lengthened size, and a custom section of 130 bytes that
\* all equal the code-section id.
PreSectionKinds ==
    { [id |-> 1, payload |-> <<1, 96, 0, 0>>, pad |-> 0],
      [id |-> 3, payload |-> <<1, 0>>, pad |-> 1],
      [id |-> 0, payload |-> [i \in 1..130 |-> CODE_SECTION_ID], pad |-> 0] }

\* Function bodies, the last with a lengthened size.
BodyKinds ==
    { [body |-> <<0, 11>>, pad |-> 0],
      [body |-> <<0, 65, 10, 26, 11>>, pad |-> 0],
      [body |-> <<0, 1, 11>>, pad |-> 1] }

DataSection == <<11, 1, 0>>

ModuleDescs ==
    { [pre |-> s, cpad |-> c, funcs |-> f, post |-> t] :
        s \in SeqsUpTo(PreSectionKinds, MaxSections), c \in {0, 1},
        f \in SeqsUpTo(BodyKinds, MaxFuncs), t \in {<<>>, DataSection} }

PreBytes(pre) ==
    Flatten([i \in 1..Len(pre) |-> Section(pre[i].id, pre[i].payload, pre[i].pad)])

FuncBytes(f) == EncU(Len(f.body), f.pad) \o f.body

CodeContent(d) ==
    EncU(Len(d.funcs), d.cpad) \o Flatten([i \in 1..Len(d.funcs) |-> FuncBytes(d.funcs[i])])

BuildModule(d) ==
    Preamble \o PreBytes(d.pre) \o Section(CODE_SECTION_ID, CodeContent(d), d.cpad) \o d.post

\* Buffers in which no code-section header is reached: cut inside the
\* preamble; without a code section; cut after a section's id byte or
\* inside its size; and with a section whose size runs past the end, over
\* a code section that follows.
MalformedModules ==
    {SubSeq(Preamble, 1, n) : n \in {0, 4}}
    \cup {Preamble \o PreBytes(s) \o t :
            s \in SeqsUpTo(PreSectionKinds, MaxSections),
            t \in {<<>>, <<1>>, <<11>>, <<1, 128>>, <<1, 4, 1>>,
                   <<1, 60, 1, 96, 0, 0, 10, 4, 1, 2, 0, 11>>}}

\* Buffers of instructions.
OpBytes == {0, 6, 8, 11, 17, 18, 252, 255}

CodeBuffers == UNION {[1..n -> OpBytes] : n \in 1..MaxCodeLen}

ParserInputs ==
    {[kind |-> "module", desc |-> d, wasm |-> BuildModule(d)] : d \in ModuleDescs}
    \cup {[kind |-> "malformed", wasm |-> w] : w \in MalformedModules}
    \cup UNION {{[kind |-> "code", wasm |-> b, offset |-> o] : o \in 0..Len(b)} :
                  b \in CodeBuffers}

ParserInit ==
    /\ ServerInit
    /\ pure_in \in ParserInputs
    /\ pure_fn = ""
    /\ pure_out = NoOutput

\* wasm_parser.get_code_section_impl(wasm)
CallGetCodeSectionImpl ==
    /\ pure_in.kind \in {"module", "malformed"}
    /\ Apply("get_code_section_impl", GetCodeSectionImpl(pure_in.wasm))

\* wasm_parser.get_func_offsets(wasm)
CallGetFuncOffsets ==
    /\ pure_in.kind \in {"module", "malformed"}
    /\ Apply("get_func_offsets", GetFuncOffsets(pure_in.wasm))

\* wasm_parser.get_wasm_op_code_str(wasm, offset)
CallGetWasmOpCodeStr ==
    /\ pure_in.kind = "code"
    /\ Apply("get_wasm_op_code_str", GetWasmOpCodeStr(pure_in.wasm, pure_in.offset))

ParserNext == CallGetCodeSectionImpl \/ CallGetFuncOffsets \/ CallGetWasmOpCodeStr

ParserSpec == ParserInit /\ [][ParserNext]_vars

\* ------------------------------------- the binary reader, turn by turn
\* get_func_offsets followed through its two loops, on any bytes after a
\* preamble: pure_fn is the loop the reader is in, "returned" or "raised",
\* and pure_out holds the cursor, the turns of the loop made, the turns
\* range(function_count) has left and the results.
TailBytes == {0, 1, CODE_SECTION_ID, 128, 255}

\* Code sections that declare 127 functions and hold two, one or none.
OversizedModules ==
    {Preamble \o TypeSection \o <<CODE_SECTION_ID, 7, 127>> \o t :
        t \in {<<>>, <<2, 0, 11>>, <<2, 0, 11, 2, 0, 11>>, <<2, 0, 11, 60, 0, 11>>}}

ReaderInputs ==
    {[kind |-> "bytes", wasm |-> Preamble \o t] : t \in SeqsUpTo(TailBytes, MaxTailLen)}
    \cup {[kind |-> "bytes", wasm |-> w] : w \in OversizedModules \cup MalformedModules}
    \cup {[kind |-> "bytes", wasm |-> BuildModule(d)] : d \in ModuleDescs}

ReaderInit ==
    /\ ServerInit
    /\ pure_in \in ReaderInputs
    /\ pure_fn = ""
    /\ pure_out = NoOutput

ReaderStep(fn, out) ==
    /\ pure_fn' = fn
    /\ pure_out' = out
    /\ UNCHANGED <<pure_in, pc, exc, stage, serverVars, bridgeVars, engineVars, guestVars>>

\* get_func_offsets, lines 54-55, and get_code_section_impl, line 33.
EnterReader ==
    /\ pure_fn = ""
    /\ ReaderStep("get_code_section_impl",
                  [pos |-> 8, turns |-> 0, left |-> 0, results |-> <<>>])

\* get_code_section_impl, lines 34-46: one turn of the while loop, or the
\* assert False after it.
ScanTurn ==
    /\ pure_fn = "get_code_section_impl"
    /\ LET wasm == pure_in.wasm
           pos  == pure_out.pos
       IN  IF ~(pos < Len(wasm)) THEN ReaderStep("raised", pure_out)
           ELSE
             LET section_id == wasm[pos + 1]
                 p1 == pos + 1
                 d  == UDecode(PySlice(wasm, p1, p1 + MAX_LENGTH))
                 p2 == p1 + d.n
                 c  == UDecode(PySlice(wasm, p2, p2 + MAX_LENGTH))
             IN  IF ~d.ok THEN ReaderStep("raised", [pure_out EXCEPT !.pos = p1])
                 ELSE IF section_id = CODE_SECTION_ID
                 THEN IF ~c.ok THEN ReaderStep("raised", [pure_out EXCEPT !.pos = p2])
                      ELSE ReaderStep("get_func_offsets",
                                      [pos |-> p2 + c.n, turns |-> 0,
                                       left |-> c.value, results |-> <<>>])
                 ELSE ReaderStep("get_code_section_impl",
                                 [pure_out EXCEPT !.pos = p2 + d.value,
                                                  !.turns = @ + 1])

\* get_func_offsets, lines 56-63: one turn of the for loop, or the return
\* after it.
FuncTurn ==
    /\ pure_fn = "get_func_offsets"
    /\ LET wasm == pure_in.wasm
           code_section_pos == pure_out.pos
           d == UDecode(PySlice(wasm, code_section_pos, code_section_pos + MAX_LENGTH))
       IN  IF pure_out.left = 0 THEN ReaderStep("returned", pure_out)
           ELSE IF ~d.ok THEN ReaderStep("raised", pure_out)
           ELSE ReaderStep("get_func_offsets",
                           [pos |-> code_section_pos + d.n + d.value,
                            turns |-> pure_out.turns + 1,
                            left |-> pure_out.left - 1,
                            results |-> Append(pure_out.results, code_section_pos + d.n)])

ReaderNext == EnterReader \/ ScanTurn \/ FuncTurn

ReaderSpec == ReaderInit /\ [][ReaderNext]_vars

\* ------------------------------------------------ the wat scanner on its own
\* Every text of up to n characters over a and newline.
RECURSIVE Texts(_)
Texts(n) ==
    IF n = 0 THEN {""}
    ELSE Texts(n - 1) \cup {t \o c : t \in Texts(n - 1), c \in {"a", "\n"}}

\* k forms nested inside each other.
RECURSIVE Nested(_)
Nested(k) == IF k = 0 THEN "" ELSE " (block" \o Nested(k - 1) \o ")"

FuncForms ==
    {"(func" \o Nested(k) \o ")" : k \in 0..MaxDepth}
    \cup {"(func (param i32) (result i32) (nop))"}

MemoryForms == {"(memory 1)", "(memory (export \"m\") 1)"}

\* One outer form with two children, a func and a memory in either order.
FormDescs ==
    { [head |-> h, first |-> a, sep |-> s, second |-> b] :
        h \in {"(module ", "(module\n  "}, s \in {" ", "\n  "},
        a \in FuncForms \cup MemoryForms, b \in FuncForms \cup MemoryForms }

TwoChildren ==
    { d \in FormDescs :
        \/ d.first \in FuncForms /\ d.second \in MemoryForms
        \/ d.first \in MemoryForms /\ d.second \in FuncForms }

FormText(d) == d.head \o d.first \o d.sep \o d.second \o ")"

\* Texts whose parentheses do not balance: a form left open, and a closing
\* parenthesis without an opener, at the end or at the start.
UnbalancedTexts ==
    UNION { { SubSeq(FormText(d), 1, Len(FormText(d)) - 1),
              FormText(d) \o ")",
              ")" \o FormText(d) } : d \in TwoChildren }
    \cup {"(", ")", "(module (func)", "(module (func)))", "(func", ")("}

\* Children whose first word is func or memory, or only begins with or
\* follows those letters.
TagForms ==
    {"(func)", "(func $f (nop))", "(function $f)", "(funcref)", "( func)",
     "(memory 1)", "(memoryx 1)", "(table 1 funcref)", "(data (memory 0))"}

TagDescs ==
    { [head |-> "(module ", first |-> a, sep |-> " ", second |-> b] :
        a \in TagForms, b \in TagForms }

\* Every text of up to n characters over the two parentheses and a, with
\* every range inside it.
RECURSIVE ParenTexts(_)
ParenTexts(n) ==
    IF n = 0 THEN {""}
    ELSE ParenTexts(n - 1) \cup {t \o c : t \in ParenTexts(n - 1), c \in {"(", ")", "a"}}

ScanInputs ==
    UNION { {[kind |-> "scan", wat |-> t, range |-> [start |-> a, end |-> Max(a, b - 1)]] :
                a \in 0..(Len(t) - 1), b \in 1..Len(t)} :
              t \in ParenTexts(MaxScanLen) }

WatInputs ==
    ScanInputs \cup
    {[kind |-> "forms", desc |-> d, wat |-> FormText(d)] : d \in TwoChildren}
    \cup {[kind |-> "tagged", desc |-> d, wat |-> FormText(d)] : d \in TagDescs}
    \cup {[kind |-> "wat", wat |-> t] : t \in UnbalancedTexts \cup {"", "()", "(module)"}}
    \cup UNION { {[kind |-> "position", wat |-> t, offset |-> o] : o \in 0..(Len(t) + 2)} :
                   t \in Texts(MaxTextLen) \cup {"(module\n  (func)\n\n  (memory 1))"} }

WatInit ==
    /\ ServerInit
    /\ pure_in \in WatInputs
    /\ pure_fn = ""
    /\ pure_out = NoOutput

\* explorer_server.analyze_wat: wat_parser.offset_to_position(wat.split("\n"), offset)
CallOffsetToPosition ==
    /\ pure_in.kind = "position"
    /\ Apply("offset_to_position",
             OffsetToPosition(Split(pure_in.wat, "\n"), pure_in.offset))

\* wat_parser.split_sub_expr(wat, r), r being Range(0, len(wat) - 1) as
\* extract_func and has_memory pass it, or a range of its own.
CallSplitSubExpr ==
    /\ pure_in.kind \in {"forms", "tagged", "wat", "scan"}
    /\ Apply("split_sub_expr",
             SplitSubExpr(pure_in.wat,
                          IF pure_in.kind = "scan" THEN pure_in.range
                          ELSE [start |-> 0, end |-> Len(pure_in.wat) - 1]))

\* wat_parser.extract_func(wat)
CallExtractFunc ==
    /\ pure_in.kind \in {"forms", "tagged", "wat"}
    /\ Apply("extract_func", ExtractFunc(pure_in.wat))

\* wat_parser.has_memory(wat)
CallHasMemory ==
    /\ pure_in.kind \in {"forms", "tagged", "wat"}
    /\ Apply("has_memory", HasMemory(pure_in.wat))

WatNext == CallOffsetToPosition \/ CallSplitSubExpr \/ CallExtractFunc \/ CallHasMemory

WatSpec == WatInit /\ [][WatNext]_vars

\* ------------------------------------------- the disassembly on its own
\* Every sequence of 1 to n lines out of a set of lines.
LinesUpTo(S, n) == UNION {[1..k -> S] : k \in 1..n}

\* A dump as the compiler prints it: body markers, code lines and empty
\* lines.
DisLines == {"; " \o BodyMarker \o " (16 bytes)", "0 nop", ""}

\* Lines of a disassembly: a data line starts with its offset; the other
\* lines are headers, empty lines, a line that is an offset and nothing
\* else, and lines whose first word is read by int(word, 16) although no
\* offset is printed that way.
AsmLines ==
    {"1000 ret", "1004 nop", "1000 nop", "0x1004 mov x0, x1", "FFC b 1000",
     "1000", "Function[0] Body", "", " 1004 nop", "-8 nop"}

DisInputs ==
    {[kind |-> "dis", lines |-> l, dis_lines |-> Join(l, "\n"),
      config |-> <<[k |-> "BACKEND", v |-> "aarch64"],
                   [k |-> "LINEAR_MEMORY_BOUNDS_CHECKS", v |-> c]>>,
      has_memory |-> m] :
        l \in LinesUpTo(DisLines, MaxDisLines), c \in {"0", "1"}, m \in BOOLEAN}
    \cup {[kind |-> "assembly", lines |-> l, assembly |-> Join(l, "\n"),
           address |-> a] :
             l \in LinesUpTo(AsmLines, MaxAsmLines), a \in {4096, 4100}}

DisInit ==
    /\ ServerInit
    /\ pure_in \in DisInputs
    /\ pure_fn = ""
    /\ pure_out = NoOutput

\* dis.process_dis_output(dis_lines, config, has_memory)
CallProcessDisOutput ==
    /\ pure_in.kind = "dis"
    /\ Apply("process_dis_output",
             ProcessDisOutput(pure_in.dis_lines, pure_in.config, pure_in.has_memory))

\* decode_dis() inside analyze_debug_info_in_dwarf, on its assembly argument
CallDecodeDis ==
    /\ pure_in.kind = "assembly"
    /\ Apply("decode_dis", [index |-> DecodeDis(pure_in.assembly)])

\* analyze_debug_info_in_dwarf for a module whose debug information says
\* that source line 3 has the instruction at wasm offset 31 and that this
\* instruction was compiled to the machine code at the address given.
CallAnalyze ==
    /\ pure_in.kind = "assembly"
    /\ Apply("analyze_debug_info_in_dwarf",
             ComposeMaps(<<[k |-> 3, v |-> <<31>>]>>,
                         <<[k |-> 31, v |-> <<pure_in.address>>]>>,
                         DecodeDis(pure_in.assembly), ModuleA))

DisNext == CallProcessDisOutput \/ CallDecodeDis \/ CallAnalyze

DisSpec == DisInit /\ [][DisNext]_vars

\* ------------------------------------------ the test regeneration on its own
\* The assembly listing every target of the case is given, the short
\* prefix of each target and the DWO dump of each target.
RegenAssembly == "0 nop\n4 ret\n8   mov x0, x1 \nret"
RegenPrefixMap == <<[k |-> "aarch64", v |-> "A64"], [k |-> "x86_64", v |-> "X86"]>>
RegenDwoDumpMap == <<[k |-> "aarch64", v |-> "x\n\ny"], [k |-> "x86_64", v |-> ""]>>
\* The result of analyze_debug_info_in_dwarf for a case of which line i has
\* c[i] instructions: a dict from the 0-based line to the indexes of its
\* assembly lines, filled from the last line to the first when rev is
\* TRUE. The instructions of a ";;" line are the assembly line that has no
\* space.
LineMapOf(wat_lines, c, rev) ==
    LET n == Len(wat_lines)
        at(i) == IF rev THEN n + 1 - i ELSE i
        all == <<>> \o [i \in 1..n |->
                   [k |-> at(i) - 1,
                    v |-> <<>> \o [j \in 1..c[at(i)] |->
                                    IF StartsWith(wat_lines[at(i)], ";;") THEN 3
                                    ELSE (at(i) - 1 + j) % 3]]]
    IN  SelectSeq(all, LAMBDA e : Len(e.v) > 0)

\* A line of a case with the number of its instructions under the first
\* and the second target: a line of code has up to MaxPerLine under the
\* first alone or one under each, any other line has at most one under
\* the first.
RegenCells ==
    {[line |-> "(a", a |-> a, b |-> 0] : a \in 0..MaxPerLine}
      \cup {[line |-> "(a", a |-> 1, b |-> 1]}
      \cup {[line |-> l, a |-> a, b |-> 0] : l \in {"", ";; c"}, a \in 0..1}

RegenCase(cells) ==
    LET wat_lines == <<>> \o [i \in 1..Len(cells) |-> cells[i].line]
    IN  [kind |-> "update",
         wat_str |-> Join(wat_lines, "\n"),
         line_maps |->
            <<[k |-> "aarch64",
               v |-> LineMapOf(wat_lines, [i \in 1..Len(cells) |-> cells[i].a], TRUE)],
              [k |-> "x86_64",
               v |-> LineMapOf(wat_lines, [i \in 1..Len(cells) |-> cells[i].b], FALSE)]>>,
         assembly |-> RegenAssembly,
         dwo_dump_map |-> RegenDwoDumpMap,
         prefix_map |-> RegenPrefixMap]

RegenInputs == {RegenCase(cells) : cells \in LinesUpTo(RegenCells, MaxWatLines)}

RegenInit ==
    /\ ServerInit
    /\ pure_in \in RegenInputs
    /\ pure_fn = ""
    /\ pure_out = NoOutput

\* run(case_path, args) with args.update set and no backend chosen: the
\* entries of every target from get_output, then the rewritten file. An
\* exception of get_output ends the run before the file is written.
CallRun ==
    /\ pure_in.kind = "update"
    /\ LET outputs == <<>> \o [t \in 1..Len(pure_in.line_maps) |->
                          GetOutput(pure_in.line_maps[t].v, pure_in.assembly)]
       IN  IF \A t \in 1..Len(outputs) : outputs[t].ok
           THEN Apply("run",
                      [raised |-> FALSE,
                       text |-> RunUpdate(
                           pure_in.wat_str,
                           <<>> \o [t \in 1..Len(outputs) |->
                                     [k |-> pure_in.line_maps[t].k,
                                      v |-> outputs[t].results]],
                           pure_in.dwo_dump_map, pure_in.prefix_map)])
           ELSE Apply("run", [raised |-> TRUE])

RegenNext == CallRun

RegenSpec == RegenInit /\ [][RegenNext]_vars

\* ================================================================== claims
\* What the claims speak of, stated from the records the guest returned
\* rather than from the maps the engine built.

\* The composition loops have run: the call returned, or a lookup in them
\* raised.
Composed(r) ==
    \/ pc[r] = "returned"
    \/ pc[r] = "raised" /\ exc[r] \in {"KeyError", "IndexError"}

\* The source lines of the binary module's records.
SourceLines(r) == {wasmRecs[r][i].line : i \in 1..Len(wasmRecs[r])}

\* The absolute wasm offsets of source line L, in record order.
AbsOffsets(r, L) ==
    LET recs == SelectSeq(wasmRecs[r], LAMBDA x : x.line = L)
        cs   == GetCodeSection(req[r].wasm).pos
    IN  [i \in 1..Len(recs) |-> recs[i].address + cs]

\* Stage 1: the machine-code offsets of a wasm offset, in record order.
Stage1(r, off) ==
    LET recs == SelectSeq(dwoRecs[r], LAMBDA x : x.line = off)
    IN  [i \in 1..Len(recs) |-> recs[i].address]

\* Stage 3: the AssemblyIndex.
AsmIndex(r) == machine_code_offset_to_disassembly_line[r]

\* Every lookup of the composition resolves.
AllResolve(r) ==
    \A L \in SourceLines(r) :
       \A j \in 1..Len(AbsOffsets(r, L)) :
          LET ms == Stage1(r, AbsOffsets(r, L)[j]) IN
          /\ Len(ms) > 0
          /\ \A k \in 1..Len(ms) : DictHas(AsmIndex(r), ms[k])

\* The list of source line L when every lookup resolves.
ComposedList(r, L) ==
    LET offs == AbsOffsets(r, L) IN
    Flatten([j \in 1..Len(offs) |->
               LET ms == Stage1(r, offs[j]) IN
               [k \in 1..Len(ms) |-> DictGet(AsmIndex(r), ms[k])]])

\* The list of source line L when unresolved entries are skipped.
ComposedListSkipping(r, L) ==
    LET offs == AbsOffsets(r, L) IN
    Flatten([j \in 1..Len(offs) |->
               LET ms  == Stage1(r, offs[j])
                   hit == SelectSeq(ms, LAMBDA m : DictHas(AsmIndex(r), m))
               IN  [k \in 1..Len(hit) |-> DictGet(AsmIndex(r), hit[k])]])

\* The synthetic setup of the composition example: one record
\* (addr=10, line=3) whose wasm offset stage 1 maps to [0x1000].
ExampleSetup(r) ==
    /\ wasmRecs[r] = <<[line |-> 3, address |-> 10]>>
    /\ Stage1(r, GetCodeSection(req[r].wasm).pos + 10) = <<4096>>

\* C1: when every lookup resolves, the call returns, for each source line
\* of the records, exactly the list built by visiting the line's wasm
\* offsets in record order and each offset's machine-code offsets in
\* stage-1 order (duplicates kept, nothing sorted), and no other key; the
\* example setup with AssemblyIndex {0x1000: 7} yields {3: [7]}.
C1_Composition ==
    \A r \in Req :
       Composed(r) /\ AllResolve(r) =>
          /\ pc[r] = "returned"
          /\ DictKeys(wat_line_to_assembly_line[r]) = SourceLines(r)
          /\ \A L \in SourceLines(r) :
                DictGet(wat_line_to_assembly_line[r], L) = ComposedList(r, L)
          /\ (ExampleSetup(r) /\ AsmIndex(r) = <<[k |-> 4096, v |-> 7]>>
                => wat_line_to_assembly_line[r] = <<[k |-> 3, v |-> <<7>>]>>)

\* C1 witness: the example setup was composed to {3: [7]}.
C1_Witness ==
    \E r \in Req :
       /\ pc[r] = "returned"
       /\ ExampleSetup(r)
       /\ DictHas(AsmIndex(r), 4096) /\ DictGet(AsmIndex(r), 4096) = 7
       /\ wat_line_to_assembly_line[r] = <<[k |-> 3, v |-> <<7>>]>>

\* Some machine-code offset that stage 1 lists for a recorded wasm offset
\* has no entry in the AssemblyIndex.
HasStage3Gap(r) ==
    \E L \in SourceLines(r) :
       \E j \in 1..Len(AbsOffsets(r, L)) :
          \E k \in 1..Len(Stage1(r, AbsOffsets(r, L)[j])) :
             ~DictHas(AsmIndex(r), Stage1(r, AbsOffsets(r, L)[j])[k])

\* Some recorded wasm offset is absent from stage 1.
HasStage1Gap(r) ==
    \E L \in SourceLines(r) :
       \E j \in 1..Len(AbsOffsets(r, L)) : Len(Stage1(r, AbsOffsets(r, L)[j])) = 0

\* The keys of a result that skips unresolved entries.
LinesWithEntries(r) == {L \in SourceLines(r) : Len(ComposedListSkipping(r, L)) > 0}

\* C2: a machine-code offset without an entry in the AssemblyIndex does not
\* abort the call: the entry is skipped and the others are composed; the
\* example setup with an empty AssemblyIndex returns {}.
C2_Stage3GapSkipped ==
    \A r \in Req :
       Composed(r) /\ HasStage3Gap(r) /\ ~HasStage1Gap(r) =>
          /\ pc[r] = "returned"
          /\ DictKeys(wat_line_to_assembly_line[r]) = LinesWithEntries(r)
          /\ \A L \in LinesWithEntries(r) :
                DictGet(wat_line_to_assembly_line[r], L) = ComposedListSkipping(r, L)

\* The misses the composition logs: every recorded wasm offset absent from
\* stage 1, in iteration order, with the opcode name at that offset.
RECURSIVE FirstSeen(_)
FirstSeen(s) ==
    IF Len(s) = 0 THEN <<>>
    ELSE LET front == FirstSeen(SubSeq(s, 1, Len(s) - 1))
             x     == s[Len(s)]
         IN  IF \E i \in 1..Len(front) : front[i] = x THEN front
             ELSE Append(front, x)

LineOrder(r) == FirstSeen([i \in 1..Len(wasmRecs[r]) |-> wasmRecs[r][i].line])

MissedOffsets(r) ==
    LET order == LineOrder(r) IN
    Flatten([i \in 1..Len(order) |->
               SelectSeq(AbsOffsets(r, order[i]),
                         LAMBDA off : Len(Stage1(r, off)) = 0)])

\* C3: a recorded wasm offset absent from stage 1, wherever it lies
\* relative to the module's length, is logged with an opcode name and
\* skipped; the call goes on to the other offsets and lines and returns.
C3_Stage1GapSkipped ==
    \A r \in Req :
       Composed(r) /\ HasStage1Gap(r) /\ ~HasStage3Gap(r) =>
          /\ pc[r] = "returned"
          /\ [i \in 1..Len(diag[r]) |-> diag[r][i].wasm_offset] = MissedOffsets(r)
          /\ DictKeys(wat_line_to_assembly_line[r]) = LinesWithEntries(r)
          /\ \A L \in LinesWithEntries(r) :
                DictGet(wat_line_to_assembly_line[r], L) = ComposedListSkipping(r, L)

\* The calls of a session with a given name.
CallsOf(r, op) == SelectSeq(calls[r], LAMBDA c : c.op = op)

\* The session's with statement has been left, by return or by exception,
\* and the session's locals are still there.
ScopeLeft(r) == pc[r] \in {"mapped", "raised"} /\ Len(calls[r]) > 0

\* The handler is inside the with body or in __exit__.
InScope(r) == pc[r] \in {"getmap", "readptr", "readlen", "readdata", "post", "exit"}

\* Every read of the session so far was of a region inside guest memory.
ReadsInBounds(r) ==
    \A i \in 1..Len(calls[r]) :
       calls[r][i].op = "read" => InBounds(calls[r][i].args[1], calls[r][i].args[2])

\* C4: when dwo-create returned a handle, dwo-destroy is called with that
\* handle exactly once by the time the with statement is left, whether by
\* return or by an exception raised inside it, never before, never twice
\* and never with anything else.
C4_ScopedRelease ==
    \A r \in Req :
       /\ Len(CallsOf(r, "dwo-destroy")) <= 1
       /\ \A i \in 1..Len(calls[r]) :
             calls[r][i].op = "dwo-destroy" =>
                dwo[r] # PyNone /\ calls[r][i].args = <<dwo[r]>>
       /\ InScope(r) => dwo[r] # PyNone /\ Len(CallsOf(r, "dwo-destroy")) = 0
       /\ ScopeLeft(r) /\ dwo[r] # PyNone => Len(CallsOf(r, "dwo-destroy")) = 1

\* C4 witness: an exception raised inside the with body has left it, and
\* the handle was destroyed once.
C4_Witness ==
    \E r \in Req :
       /\ pc[r] = "raised" /\ exc[r] = "UnicodeDecodeError"
       /\ ReadsInBounds(r)
       /\ dwo[r] # PyNone
       /\ CallsOf(r, "dwo-destroy") = <<[op |-> "dwo-destroy", args |-> <<dwo[r]>>]>>

\* dwo-get-line-map has returned its struct pointer in this session.
LineMapReturned(r) == json_struct_ptr[r] # PyNone

\* C5: once dwo-get-line-map has returned a struct pointer, the post-return
\* export has been called with it whenever the with statement is left
\* (stated for the sessions whose reads stay inside guest memory: an exit
\* after a read or a decoding that failed is among them).
C5_PostReturnOnEveryExit ==
    \A r \in Req :
       ScopeLeft(r) /\ LineMapReturned(r) /\ ReadsInBounds(r) =>
          \E i \in 1..Len(calls[r]) :
             /\ calls[r][i].op = "cabi_post_dwo-get-line-map"
             /\ calls[r][i].args = <<json_struct_ptr[r]>>

\* C6: when cabi_realloc returns 0 the bridge neither writes the blob to
\* address 0 nor calls dwo-create, and the session ends with a
\* GuestAllocationFailed error.
C6_AllocationFailureReported ==
    \A r \in Req :
       dwarf_ptr[r] = 0 =>
          /\ Len(CallsOf(r, "write")) = 0
          /\ Len(CallsOf(r, "dwo-create")) = 0
          /\ pc[r] \in {"mapped", "raised"} =>
                pc[r] = "raised" /\ exc[r] = "GuestAllocationFailed"

\* The calls of a successful session, from its locals.
ProtocolCalls(r) ==
    LET n == Len(Binary(r)) IN
    << [op |-> "cabi_realloc", args |-> <<0, 0, 4, n>>],
       [op |-> "write", args |-> <<dwarf_ptr[r], n>>],
       [op |-> "dwo-create", args |-> <<dwarf_ptr[r], n>>],
       [op |-> "dwo-get-line-map", args |-> <<dwo[r]>>],
       [op |-> "read", args |-> <<json_struct_ptr[r], 4>>],
       [op |-> "read", args |-> <<json_struct_ptr[r] + 4, 4>>],
       [op |-> "read", args |-> <<json_ptr[r], json_length[r]>>],
       [op |-> "cabi_post_dwo-get-line-map", args |-> <<json_struct_ptr[r]>>],
       [op |-> "dwo-destroy", args |-> <<dwo[r]>>] >>

\* C7: a successful session issues exactly allocate, copy, create,
\* get-line-map, the two reads of the struct, the read of the payload,
\* post-return and destroy, in this order; in every session post-return
\* comes before destroy and nothing follows destroy.
C7_ProtocolOrder ==
    \A r \in Req :
       /\ pc[r] = "mapped" => calls[r] = ProtocolCalls(r)
       /\ \A i \in 1..Len(calls[r]) :
             calls[r][i].op = "dwo-destroy" => i = Len(calls[r])

\* C7 witness: the session on the binary module returned after its nine
\* steps.
C7_Witness ==
    \E r \in Req :
       /\ pc[r] = "mapped" /\ stage[r] = "wasm"
       /\ Len(calls[r]) = 9
       /\ calls[r][2].args = <<dwarf_ptr[r], Len(req[r].wasm)>>
       /\ debug_line[r].kind = "json"

\* C8: at most one handle is live at any moment, and it belongs to the one
\* session that is inside its with statement; no handle is live when a
\* session allocates, nor when the correlation call has returned or
\* raised; and a request's handler starts only when every earlier request
\* is done.
C8_NoOverlap ==
    /\ Cardinality(live) <= 1
    /\ live = {dwo[r] : r \in {q \in Req : InScope(q)}}
    /\ \A r \in Req : pc[r] \in {"alloc", "returned", "raised"} => live = {}
    /\ \A r1, r2 \in Req : r1 < r2 /\ pc[r2] # "idle" => pc[r1] = "done"

\* C8 witness: the second request holds the only live handle, in its
\* session on the binary module, after the first request is done.
C8_Witness ==
    /\ NumRequests >= 2
    /\ pc[1] = "done"
    /\ InScope(2) /\ stage[2] = "wasm"
    /\ live = {dwo[2]}

\* C9: the keys of the returned map are source lines of the records the
\* guest returned for the binary module.
C9_KeysAreSourceLines ==
    \A r \in Req :
       pc[r] = "returned" =>
          DictKeys(wat_line_to_assembly_line[r]) \subseteq SourceLines(r)

\* C9 witness: a call returned a map that has a key, and a source line of
\* the records is no key of it.
C9_Witness ==
    \E r \in Req :
       /\ pc[r] = "returned"
       /\ DictKeys(wat_line_to_assembly_line[r]) # {}
       /\ DictKeys(wat_line_to_assembly_line[r]) # SourceLines(r)

\* Stage 2 has been built and is still held.
Stage2Built(r) == pc[r] \in {"decode_dis", "compose"} \/ Composed(r)

\* C10: stage 2 has one entry per source line of the records, and the
\* entry of a line lists, in record order, the address of each record of
\* the line plus the offset get_code_section returns.
C10_Stage2Construction ==
    \A r \in Req :
       Stage2Built(r) =>
          /\ DictKeys(wat_line_to_wasm_offset[r]) = SourceLines(r)
          /\ \A L \in SourceLines(r) :
                DictGet(wat_line_to_wasm_offset[r], L) = AbsOffsets(r, L)
          /\ \A i, j \in 1..Len(wat_line_to_wasm_offset[r]) :
                wat_line_to_wasm_offset[r][i].k = wat_line_to_wasm_offset[r][j].k
                   => i = j

\* C10 witness: two records of one line were grouped into one entry of two
\* absolute offsets.
C10_Witness ==
    \E r \in Req :
       /\ Stage2Built(r)
       /\ wasmRecs[r] = <<[line |-> 3, address |-> 11], [line |-> 3, address |-> 10]>>
       /\ code_section_offset[r] = GetCodeSection(req[r].wasm).pos
       /\ wat_line_to_wasm_offset[r] =
             <<[k |-> 3, v |-> <<code_section_offset[r] + 11,
                                 code_section_offset[r] + 10>>]>>

\* Where the pieces of a built module lie (0-based): the code section's
\* id byte, its function-count varuint, and each function's size varuint
\* and body.
CodeHeaderAt(d) == Len(Preamble) + Len(PreBytes(d.pre))
CountAt(d) == CodeHeaderAt(d) + 1 + Len(EncU(Len(CodeContent(d)), d.cpad))
FirstSizeAt(d) == CountAt(d) + Len(EncU(Len(d.funcs), d.cpad))
SizeAt(d, k) ==
    FirstSizeAt(d) + Len(Flatten([j \in 1..(k - 1) |-> FuncBytes(d.funcs[j])]))
BodyAt(d, k) == SizeAt(d, k) + Len(EncU(Len(d.funcs[k].body), d.funcs[k].pad))

\* C11: on a well-formed module get_code_section_impl skips every section
\* before the code section by its size and returns (offset, count): the
\* byte before offset is the last of the function-count varuint, offset is
\* where the first function's size varuint starts, and count is the
\* number of functions.
C11_LocateCodeSection ==
    pure_fn = "get_code_section_impl" /\ pure_in.kind = "module" =>
       LET d == pure_in.desc
           w == pure_in.wasm
       IN  /\ pure_out.ok
           /\ pure_out.pos = FirstSizeAt(d)
           /\ pure_out.count = Len(d.funcs)
           /\ SubSeq(w, CountAt(d) + 1, pure_out.pos) = EncU(Len(d.funcs), d.cpad)
           /\ w[pure_out.pos] < 128
           /\ Len(d.funcs) > 0 =>
                 SubSeq(w, pure_out.pos + 1, BodyAt(d, 1))
                    = EncU(Len(d.funcs[1].body), d.funcs[1].pad)

\* C11 witness: the code section was found behind a custom section full
\* of bytes 10 and a section with a lengthened size.
C11_Witness ==
    /\ pure_fn = "get_code_section_impl" /\ pure_in.kind = "module"
    /\ Len(pure_in.desc.pre) = 2
    /\ pure_in.desc.pre[1].id = 0 /\ pure_in.desc.pre[2].pad = 1
    /\ pure_in.desc.cpad = 1
    /\ pure_out.ok /\ pure_out.count = 2

\* C12: on a buffer in which no code-section header is reached (no code
\* section, a size that runs past the end, a header cut after the id
\* byte) get_code_section_impl raises and returns no (offset, count).
C12_MalformedBinary ==
    pure_fn = "get_code_section_impl" /\ pure_in.kind = "malformed" => ~pure_out.ok

\* C12 witness: the call failed on a buffer cut after a section's id byte,
\* behind a complete section.
C12_Witness ==
    /\ pure_fn = "get_code_section_impl"
    /\ pure_in.kind = "malformed"
    /\ pure_in.wasm = Preamble \o <<1, 4, 1, 96, 0, 0>> \o <<11>>
    /\ ~pure_out.ok

\* C13: on a well-formed module get_func_offsets returns one offset per
\* function, strictly increasing; the k-th is the position right after the
\* k-th body-size varuint, and the next size varuint starts at that offset
\* plus the body size.
C13_FunctionBodyOffsets ==
    pure_fn = "get_func_offsets" /\ pure_in.kind = "module" =>
       LET d == pure_in.desc
           w == pure_in.wasm
           o == pure_out.offsets
       IN  /\ pure_out.ok
           /\ Len(o) = Len(d.funcs)
           /\ \A k \in 1..Len(o) :
                 /\ o[k] = BodyAt(d, k)
                 /\ SubSeq(w, o[k] + 1, o[k] + Len(d.funcs[k].body)) = d.funcs[k].body
                 /\ k < Len(o) =>
                       /\ o[k] < o[k + 1]
                       /\ SizeAt(d, k + 1) = o[k] + Len(d.funcs[k].body)

\* C13 witness: two offsets were returned, the second behind a lengthened
\* size.
C13_Witness ==
    /\ pure_fn = "get_func_offsets" /\ pure_in.kind = "module"
    /\ Len(pure_in.desc.funcs) = 2 /\ pure_in.desc.funcs[2].pad = 1
    /\ Len(pure_in.desc.pre) > 0
    /\ pure_out.ok /\ Len(pure_out.offsets) = 2

\* C14: at an in-bounds offset get_wasm_op_code_str returns the table's
\* mnemonic of the byte there, or of the big-endian pair when the byte is
\* 0xFC; a code without a mnemonic gives unknown_opcode_<hex>, also 0xFC
\* as the last byte or before an undefined sub-opcode; it never fails.
C14_DecodeOpcodeName ==
    pure_fn = "get_wasm_op_code_str" /\ pure_in.offset < Len(pure_in.wasm) =>
       LET w == pure_in.wasm
           i == pure_in.offset + 1
           last == i = Len(w)
       IN  /\ pure_out.ok
           /\ w[i] # 252 => pure_out.str = WasmOpcodeToStr(w[i])
           /\ w[i] = 0 => pure_out.str = "unreachable"
           /\ w[i] = 11 => pure_out.str = "end"
           /\ w[i] = 6 => pure_out.str = "unknown_opcode_0x6"
           /\ w[i] = 255 => pure_out.str = "unknown_opcode_0xff"
           /\ w[i] = 252 /\ last => pure_out.str = "unknown_opcode_0xfc"
           /\ w[i] = 252 /\ ~last =>
                 pure_out.str = WasmOpcodeToStr((252 * 256) + w[i + 1])
           /\ w[i] = 252 /\ ~last /\ w[i + 1] = 8 => pure_out.str = "memory.init"
           /\ w[i] = 252 /\ ~last /\ w[i + 1] = 17 => pure_out.str = "table.fill"
           /\ w[i] = 252 /\ ~last /\ w[i + 1] = 18 => pure_out.str = "unknown_opcode_0xfc12"
           /\ w[i] = 252 /\ ~last /\ w[i + 1] = 0 => pure_out.str = "unknown_opcode_0xfc00"

\* C14 witness: 0xFC 0x11 was named table.fill.
C14_Witness ==
    /\ pure_fn = "get_wasm_op_code_str"
    /\ pure_in.wasm = <<252, 17>> /\ pure_in.offset = 0
    /\ pure_out = [ok |-> TRUE, str |-> "table.fill"]

\* The payload sum of the first n bytes of b.
RECURSIVE PayloadSum(_, _)
PayloadSum(b, n) ==
    IF n = 0 THEN 0 ELSE PayloadSum(b, n - 1) + Shl(b[n] % 128, 7 * (n - 1))

\* The 1-based position of the first byte of b without the continuation
\* bit, 0 when there is none.
FirstTerminator(b) ==
    IF \E j \in 1..Len(b) : b[j] < 128
    THEN CHOOSE j \in 1..Len(b) : b[j] < 128 /\ \A h \in 1..(j - 1) : b[h] >= 128
    ELSE 0

\* C15: for every non-empty b, u.decode returns (value, n) with n the
\* index of the first byte without the continuation bit plus one, value
\* the sum of the payloads of the n bytes, and n at most MAX_LENGTH
\* (stated for the sequences that have a byte without the continuation
\* bit, where every part of the statement is defined).
C15_UnsignedLeb128 ==
    pure_fn = "u.decode" /\ FirstTerminator(pure_in.b) # 0 =>
       /\ pure_out.ok
       /\ pure_out.n = FirstTerminator(pure_in.b)
       /\ pure_out.value = PayloadSum(pure_in.b, pure_out.n)
       /\ pure_out.n <= MAX_LENGTH

\* C16: for every non-empty b, i.decode consumes the n bytes u.decode
\* consumes and returns the unsigned value u when bit 0x40 of the last
\* byte consumed is clear, and u - 2^(7n) when it is set.
C16_SignedLeb128 ==
    pure_fn = "i.decode" /\ Len(pure_in.b) > 0 =>
       LET u == UDecode(pure_in.b)
           last == pure_in.b[u.n]
       IN  /\ pure_out.ok
           /\ pure_out.n = u.n
           /\ pure_out.value =
                 IF (last \div 64) % 2 = 1 THEN u.value - Pow2(7 * u.n) ELSE u.value

\* C16 witness: the two bytes 0xFF 0x7F decode to -1.
C16_Witness ==
    /\ pure_fn = "i.decode"
    /\ pure_in.b = <<255, 127>>
    /\ pure_out = [ok |-> TRUE, value |-> -1, n |-> 2]

\* The lines of the text given to offset_to_position, and where line k
\* (from 0) starts.
InLines == Split(pure_in.wat, "\n")

RECURSIVE StartOf(_)
StartOf(k) == IF k = 0 THEN 0 ELSE StartOf(k - 1) + Len(InLines[k]) + 1

\* The lines whose half-open range [start, start + len + 1) holds offset.
Holding(offset) ==
    {k \in 0..(Len(InLines) - 1) :
        StartOf(k) <= offset /\ offset < StartOf(k) + Len(InLines[k + 1]) + 1}

\* offset_to_position returned the first line that holds the offset, when
\* one does.
FirstHoldingLine ==
    LET h == Holding(pure_in.offset) IN
    h # {} =>
       /\ pure_out.line \in h
       /\ \A k \in h : pure_out.line <= k
       /\ pure_out.column = pure_in.offset - StartOf(pure_out.line)

\* C17 as stated: the first line whose range holds the offset is returned,
\* and (numberOfLines, 0) for every offset at or beyond the end of the
\* text, the offset equal to the text's length included.
C17_AsStated ==
    pure_fn = "offset_to_position" =>
       /\ FirstHoldingLine
       /\ pure_in.offset >= Len(pure_in.wat) =>
             pure_out = [line |-> Len(InLines), column |-> 0]

\* C17 as amended: the first line whose range holds the offset is
\* returned; (numberOfLines, 0) is returned for every offset greater than
\* the text's length; the offset equal to the text's length lies in the
\* range of the last line and gives (numberOfLines - 1, length of the last
\* line).
C17_OffsetToLineColumn ==
    pure_fn = "offset_to_position" =>
       /\ FirstHoldingLine
       /\ pure_in.offset > Len(pure_in.wat) =>
             pure_out = [line |-> Len(InLines), column |-> 0]
       /\ pure_in.offset = Len(pure_in.wat) =>
             pure_out = [line |-> Len(InLines) - 1,
                         column |-> Len(InLines[Len(InLines)])]

\* C17 witness: the offset equal to the length of "a\na" gave (1, 1).
C17_Witness ==
    /\ pure_fn = "offset_to_position"
    /\ pure_in.wat = "a\na" /\ pure_in.offset = 3
    /\ pure_out = [line |-> 1, column |-> 1]

\* C18: for an offset inside the text, the position (line, column)
\* returned has column <= len(lines[line]) and the lengths of the lines
\* before it, each plus one, plus column give the offset back.
C18_RoundTrip ==
    pure_fn = "offset_to_position" /\ pure_in.offset < Len(pure_in.wat) =>
       /\ pure_out.line < Len(InLines)
       /\ pure_out.column <= Len(InLines[pure_out.line + 1])
       /\ StartOf(pure_out.line) + pure_out.column = pure_in.offset

\* C18 witness: the offset of a newline after an empty line gave the
\* column equal to the line's length.
C18_Witness ==
    /\ pure_fn = "offset_to_position"
    /\ pure_in.wat = "a\n\n" /\ pure_in.offset = 2
    /\ pure_out = [line |-> 1, column |-> 0]

\* C19: on one outer form whose children are one func and one memory,
\* split_sub_expr returns two ranges in source order, each from the
\* child's opening parenthesis to its matching closing one, whatever is
\* nested inside the children.
C19_TopLevelForms ==
    pure_fn = "split_sub_expr" /\ pure_in.kind = "forms" =>
       LET d  == pure_in.desc
           s1 == Len(d.head)
           e1 == s1 + Len(d.first) - 1
           s2 == e1 + 1 + Len(d.sep)
           e2 == s2 + Len(d.second) - 1
       IN  /\ pure_out.ok
           /\ pure_out.subs = <<[start |-> s1, end |-> e1], [start |-> s2, end |-> e2]>>
           /\ SubSeq(pure_in.wat, s1 + 1, e1 + 1) = d.first
           /\ SubSeq(pure_in.wat, s2 + 1, e2 + 1) = d.second

\* C19 witness: a memory with a nested form came first and a func with
\* forms nested MaxDepth deep second, on separate lines.
C19_Witness ==
    /\ pure_fn = "split_sub_expr" /\ pure_in.kind = "forms"
    /\ pure_in.desc.first = "(memory (export \"m\") 1)"
    /\ pure_in.desc.second = "(func" \o Nested(MaxDepth) \o ")"
    /\ pure_in.desc.sep = "\n  "
    /\ pure_out.ok /\ Len(pure_out.subs) = 2

\* The parentheses of a text balance: no prefix closes more than it
\* opens, and the whole text closes all it opens.
RECURSIVE DepthAfter(_, _)
DepthAfter(t, n) ==
    IF n = 0 THEN 0
    ELSE DepthAfter(t, n - 1)
           + (IF Ch(t, n) = "(" THEN 1 ELSE IF Ch(t, n) = ")" THEN -1 ELSE 0)

Balanced(t) ==
    /\ \A n \in 0..Len(t) : DepthAfter(t, n) >= 0
    /\ DepthAfter(t, Len(t)) = 0

\* C20: on a text whose parentheses do not balance, extract_func and
\* has_memory raise instead of returning a result.
C20_UnbalancedInput ==
    pure_fn \in {"extract_func", "has_memory"} /\ ~Balanced(pure_in.wat) => ~pure_out.ok

\* The tag of a form: the text after its opening parenthesis up to the
\* first whitespace, or up to its closing parenthesis when it has none.
TagOf(form) ==
    LET body == SubSeq(form, 2, Len(form) - 1)
        ws   == {i \in 1..Len(body) : Ch(body, i) \in Whitespace}
    IN  IF ws = {} THEN body
        ELSE SubSeq(body, 1, (CHOOSE i \in ws : \A j \in ws : i <= j) - 1)

\* The ranges of the two children of the outer form.
ChildRanges(d) ==
    LET s1 == Len(d.head)
        e1 == s1 + Len(d.first) - 1
        s2 == e1 + 1 + Len(d.sep)
        e2 == s2 + Len(d.second) - 1
    IN  <<[form |-> d.first, range |-> [start |-> s1, end |-> e1]],
          [form |-> d.second, range |-> [start |-> s2, end |-> e2]]>>

TaggedRanges(d, tag) ==
    LET Is(c) == TagOf(c.form) = tag
        sel == SelectSeq(ChildRanges(d), Is)
    IN  [i \in 1..Len(sel) |-> sel[i].range]

\* C21: extract_func returns exactly the children whose tag is func, in
\* source order, and has_memory is true exactly when a child's tag is
\* memory; a tag that only begins with those letters does not count.
C21_ExactTag ==
    pure_in.kind = "tagged" =>
       /\ pure_fn = "extract_func" =>
             pure_out.ok /\ pure_out.ranges = TaggedRanges(pure_in.desc, "func")
       /\ pure_fn = "has_memory" =>
             pure_out.ok /\ pure_out.value = (TaggedRanges(pure_in.desc, "memory") # <<>>)

\* C28: for every text and every range inside it, the assertion of
\* split_sub_expr holds (the call returns), and the ranges returned lie
\* inside the range scanned, each after the one before it, without
\* overlap.
C28_AssertionHolds ==
    pure_fn = "split_sub_expr" /\ pure_in.kind = "scan" =>
       /\ pure_out.ok
       /\ \A k \in 1..Len(pure_out.subs) :
             /\ pure_in.range.start <= pure_out.subs[k].start
             /\ pure_out.subs[k].start < pure_out.subs[k].end
             /\ pure_out.subs[k].end <= pure_in.range.end
       /\ \A j, k \in 1..Len(pure_out.subs) :
             j < k => pure_out.subs[j].end < pure_out.subs[k].start

\* C28 witness: the scan of a form left open returned the two forms
\* closed inside it.
C28_Witness ==
    /\ pure_fn = "split_sub_expr" /\ pure_in.kind = "scan"
    /\ pure_in.wat = "(()()" /\ pure_in.range = [start |-> 0, end |-> 4]
    /\ pure_out = [ok |-> TRUE, subs |-> <<[start |-> 1, end |-> 2],
                                           [start |-> 3, end |-> 4]>>]

\* The token of a line: its text before the first space, the whole line
\* when it has no space; and what the token reads as in base 16.
TokenOf(line) ==
    LET sp == {i \in 1..Len(line) : Ch(line, i) = " "}
    IN  IF sp = {} THEN line
        ELSE SubSeq(line, 1, (CHOOSE i \in sp : \A j \in sp : i <= j) - 1)

HexOf(line) == ParseHex(TokenOf(line))

FirstEmpty(L) ==
    IF \E i \in 1..Len(L) : L[i] = ""
    THEN (CHOOSE i \in 1..Len(L) : L[i] = "" /\ \A j \in 1..(i - 1) : L[j] # "") - 1
    ELSE Len(L)

MarkerRank(L, i) ==
    Cardinality({j \in 0..i : j < FirstEmpty(L) /\ Contains(L[j + 1], BodyMarker)})

IsScannedMarker(L, i) == i < FirstEmpty(L) /\ Contains(L[i + 1], BodyMarker)

\* The names of the bodies that come before the functions.
SpecialNames(checks, has_memory) ==
    <<"GenericTrapHandler Body">>
      \o (IF checks = "0" THEN <<"LandingPad Body">>
          ELSE IF checks = "1" /\ has_memory THEN <<"ExtensionRequest Body">>
          ELSE <<>>)

\* A line with its one marker replaced by a name.
WithName(line, name) ==
    LET p == CHOOSE i \in 1..Len(line) :
                 SubSeq(line, i, i + Len(BodyMarker) - 1) = BodyMarker
    IN  SubSeq(line, 1, p - 1) \o name
          \o SubSeq(line, p + Len(BodyMarker), Len(line))

\* C25: up to the first empty line the first marker is renamed to
\* GenericTrapHandler Body, the second to LandingPad Body (bounds checks
\* "0") or ExtensionRequest Body (bounds checks "1" and a memory), and the
\* markers after these to Function[k] Body, k = 0, 1, 2, ...; every other
\* line, and every line after the first empty one, is as it was;
\* func_positions lists the indexes of the Function[k] markers in
\* increasing order and then the index of the first empty line, if any.
C25_RenameBodies ==
    pure_fn = "process_dis_output" =>
       LET L == pure_in.lines
           O == Split(pure_out.text, "\n")
           S == SpecialNames(DictGet(pure_in.config, "LINEAR_MEMORY_BOUNDS_CHECKS"),
                             pure_in.has_memory)
           IsFunc(i) == IsScannedMarker(L, i) /\ MarkerRank(L, i) > Len(S)
           funcs == {i \in 0..(Len(L) - 1) : IsFunc(i)}
           P == pure_out.func_positions
       IN  /\ Len(O) = Len(L)
           /\ \A i \in 0..(Len(L) - 1) :
                 O[i + 1] =
                    IF ~IsScannedMarker(L, i) THEN L[i + 1]
                    ELSE IF MarkerRank(L, i) <= Len(S)
                    THEN WithName(L[i + 1], S[MarkerRank(L, i)])
                    ELSE WithName(L[i + 1],
                           "Function[" \o Str(MarkerRank(L, i) - Len(S) - 1) \o "] Body")
           /\ Len(P) = Cardinality(funcs) + (IF FirstEmpty(L) < Len(L) THEN 1 ELSE 0)
           /\ \A k \in 1..Cardinality(funcs) :
                 P[k] \in funcs /\ (k > 1 => P[k - 1] < P[k])
           /\ FirstEmpty(L) < Len(L) => P[Len(P)] = FirstEmpty(L)

\* C25 witness: with bounds checks "1" and a memory, four markers before
\* an empty line were renamed to the trap handler, the extension request,
\* Function[0] and Function[1], and the marker after the empty line was
\* left as it was.
C25_Witness ==
    /\ pure_fn = "process_dis_output"
    /\ pure_in.has_memory
    /\ DictGet(pure_in.config, "LINEAR_MEMORY_BOUNDS_CHECKS") = "1"
    /\ pure_in.lines = <<"; " \o BodyMarker \o " (16 bytes)", "; " \o BodyMarker \o " (16 bytes)",
                         "; " \o BodyMarker \o " (16 bytes)", "", "; " \o BodyMarker \o " (16 bytes)">>
    /\ pure_out.func_positions = <<2, 3>>
    /\ pure_out.text = "; GenericTrapHandler Body (16 bytes)\n; ExtensionRequest Body (16 bytes)\n"
                         \o "; Function[0] Body (16 bytes)\n\n; " \o BodyMarker \o " (16 bytes)"

\* C26: every assembly line index analyze_debug_info_in_dwarf returns is
\* a zero-based index into assembly.split("\n") and the line it
\* designates contains a space.
C26_IndexedLineHasSpace ==
    pure_fn = "analyze_debug_info_in_dwarf" /\ pure_out.exc = "" =>
       \A e \in 1..Len(pure_out.res) : \A n \in 1..Len(pure_out.res[e].v) :
          LET assembly_line_index == pure_out.res[e].v[n] IN
          /\ assembly_line_index \in 0..(Len(pure_in.lines) - 1)
          /\ Contains(pure_in.lines[assembly_line_index + 1], " ")

\* C29: every turn of the scan of get_code_section_impl leaves the cursor
\* further than it found it; get_func_offsets makes at most len(wasm)
\* turns, whatever the function count declared; and every offset it
\* returns is at most len(wasm).
C29_ReaderTerminates ==
    [][ /\ pure_fn = "get_code_section_impl" /\ pure_fn' # "raised"
            => pure_out'.pos > pure_out.pos
        /\ pure_fn' = "get_func_offsets" => pure_out'.turns <= Len(pure_in.wasm)
        /\ pure_fn' = "returned" =>
              \A k \in 1..Len(pure_out'.results) :
                 pure_out'.results[k] <= Len(pure_in.wasm) ]_vars

\* C29 witness: a code section that declares 127 functions and holds
\* two was read for two turns and the third turn failed, 125 turns left.
C29_Witness ==
    /\ pure_fn = "raised"
    /\ pure_in.wasm = Preamble \o TypeSection \o <<CODE_SECTION_ID, 7, 127, 2, 0, 11, 2, 0, 11>>
    /\ pure_out = [pos |-> 23, turns |-> 2, left |-> 125, results |-> <<18, 21>>]

\* Every wasm offset recorded for source line L is absent from stage 1.
AllUnresolved(r, L) ==
    \A j \in 1..Len(AbsOffsets(r, L)) : Len(Stage1(r, AbsOffsets(r, L)[j])) = 0

\* C27: no source line of a returned result has an empty list, and a
\* source line all of whose wasm offsets are unresolved is not a key of
\* the result.
C27_NoEmptyLists ==
    \A r \in Req :
       pc[r] = "returned" =>
          /\ \A e \in 1..Len(wat_line_to_assembly_line[r]) :
                Len(wat_line_to_assembly_line[r][e].v) > 0
          /\ \A L \in SourceLines(r) :
                AllUnresolved(r, L) => ~DictHas(wat_line_to_assembly_line[r], L)

\* C27 witness: of two source lines recorded, the one whose offset is
\* unresolved is absent from the result returned and the other is in it.
C27_Witness ==
    \E r \in Req :
       /\ pc[r] = "returned"
       /\ \E L, M \in SourceLines(r) :
             /\ AllUnresolved(r, L)
             /\ ~DictHas(wat_line_to_assembly_line[r], L)
             /\ DictHas(wat_line_to_assembly_line[r], M)

\* C23: a request in which the correlation engine failed ends like every
\* other one, by disassemble_wat returning an object (one with "error")
\* that do_POST writes: no request ends by an exception leaving do_POST.
C23_ErrorTranslated ==
    [][ \A r \in Req : pc[r] # "done" /\ pc'[r] = "done" => pc[r] = "returned" ]_vars

\* The little-endian value of the four guest bytes at address a.
WordAt(m, a) == FromBytesLittle([i \in 1..4 |-> m[a + i - 1]])

\* C24: write_to_linear_memory(ptr, data) leaves data at [ptr, ptr +
\* len(data)) in order and every other guest byte as it was; and
\* read_from_linear_memory(p, n) always returns, with the n bytes at p,
\* ..., p + n - 1 in increasing order.
C24_MemoryCopy ==
    [][ \A r \in Req :
          /\ pc[r] = "write" /\ pc'[r] = "create" =>
                /\ \A i \in 1..Len(Binary(r)) :
                      mem'[dwarf_ptr[r] + i - 1] = Binary(r)[i]
                /\ \A a \in DOMAIN mem \ Region(dwarf_ptr[r], Len(Binary(r))) :
                      mem'[a] = mem[a]
          /\ pc[r] = "readptr" /\ pc'[r] # "readptr" =>
                /\ pc'[r] = "readlen"
                /\ Known(mem, ReadPtrAddr(r), 4) =>
                      json_ptr'[r] = WordAt(mem, ReadPtrAddr(r))
          /\ pc[r] = "readlen" /\ pc'[r] # "readlen" =>
                /\ pc'[r] = "readdata"
                /\ Known(mem, ReadLenAddr(r), 4) =>
                      json_length'[r] = WordAt(mem, ReadLenAddr(r))
          /\ pc[r] = "readdata" /\ pc'[r] # "readdata" => pc'[r] # "crashed" ]_vars

\* The lines of code of a file (neither empty nor starting with ";;"), the
\* number of elements of S up to x, and the lines of a file that are check
\* comments under a prefix.
CodeIn(lines) == {i \in 1..Len(lines) : lines[i] # "" /\ ~StartsWith(lines[i], ";;")}
RankIn(S, x) == Cardinality({y \in S : y <= x})
CommentsIn(lines, prefix) ==
    {p \in 1..Len(lines) :
        \/ StartsWith(lines[p], ";; " \o prefix \o ":")
        \/ StartsWith(lines[p], ";; " \o prefix \o "-NEXT:")}
EndsWith(s, suffix) ==
    Len(suffix) <= Len(s) /\ SubSeq(s, Len(s) - Len(suffix) + 1, Len(s)) = suffix
EntriesOf(t) == GetOutput(pure_in.line_maps[t].v, pure_in.assembly).results
EveryEntryOnCode ==
    LET oldCode == CodeIn(Split(pure_in.wat_str, "\n"))
    IN  \A t \in 1..Len(pure_in.line_maps) :
            LET entries == EntriesOf(t)
            IN  \A j \in 1..Len(entries) : entries[j].wat_line_index + 1 \in oldCode

\* C30: when every entry refers to a line of code, the rewritten file
\* keeps the lines of code in their order and has, for each target, as
\* many check comments as entries; the j-th comment of the target is the
\* j-th entry in the order of the wat lines, it comes after the line it
\* refers to with no other line of code before it, its [[@LINE-k]] has k
\* equal to the distance back to that line, and it has the plain prefix
\* when j = 1 and the -NEXT prefix otherwise.
C30_Regenerated ==
    (pure_fn = "run" /\ ~pure_out.raised /\ EveryEntryOnCode) =>
        LET oldLines == Split(pure_in.wat_str, "\n")
            newLines == Split(pure_out.text, "\n")
            oldCode  == CodeIn(oldLines)
            newCode  == CodeIn(newLines)
            NewPos(i) == CHOOSE p \in newCode : RankIn(newCode, p) = RankIn(oldCode, i)
        IN  /\ Cardinality(newCode) = Cardinality(oldCode)
            /\ \A i \in oldCode : newLines[NewPos(i)] = oldLines[i]
            /\ \A t \in 1..Len(pure_in.line_maps) :
                  LET entries  == EntriesOf(t)
                      prefix   == pure_in.prefix_map[t].v
                      comments == CommentsIn(newLines, prefix)
                  IN  /\ Cardinality(comments) = Len(entries)
                      /\ \A j \in 1..Len(entries) :
                            LET p == CHOOSE x \in comments : RankIn(comments, x) = j
                                q == NewPos(entries[j].wat_line_index + 1)
                            IN  /\ q < p
                                /\ \A r \in (q + 1)..p : r \notin newCode
                                /\ j > 1 => entries[j - 1].wat_line_index
                                               <= entries[j].wat_line_index
                                /\ StartsWith(newLines[p],
                                              ";; " \o prefix
                                                \o (IF j = 1 THEN ":" ELSE "-NEXT:"))
                                /\ EndsWith(newLines[p],
                                            " [[@LINE-" \o Str(p - q) \o "]]: "
                                              \o entries[j].assembly_line)

\* Two targets with entries on the same line and a later line of code
\* after a comment line: the second target's comment and the last comment
\* of the first target are each two lines below the line they refer to.
C30_Witness ==
    /\ pure_fn = "run" /\ ~pure_out.raised /\ EveryEntryOnCode
    /\ pure_in.wat_str = "(a\n;; c\n(a"
    /\ Len(EntriesOf(1)) = 3
    /\ LET newLines == Split(pure_out.text, "\n")
       IN  /\ newLines[4] = ";; X86:                     [[@LINE-2]]: ret"
           /\ newLines[8] = ";; A64-NEXT:                [[@LINE-2]]: ret"

====
